---- MODULE Spec2Model ----
(***************************************************************************)
(* Model of the deferred geometry pass of the renderer: GBuffer::fill      *)
(* (fyrox-impl/src/renderer/gbuffer/mod.rs).  One call of fill is a        *)
(* sequence of statements; pc is the index of the next statement, state    *)
(* the stage of the frame that was completed last.  The occlusion tester   *)
(* (renderer/occlusion) is used by fill but is not part of the sources at  *)
(* hand, it is modelled after its description.                             *)
(***************************************************************************)
EXTENDS Integers, Sequences, FiniteSets, TLC

\* ------------------------------------------------------------------ bounds
NumObjects == 2
NumCells == 1
NumDecals == 1
MaxFrames == 3
Width == 2
Height == 1
MaxSize == 3
NumBlendDecals == 2
MaxLen == 3
MaxFeeds == 4
NumSamples == 2
NumValues == 2
MaxCalls == 3
MaxSide == 2
MaxProvided == 3
MaxExcess == 4
NumCurves == 2
NumPaths == 1
MaxCommands == 2

Objects == 1..NumObjects
Cells == 1..NumCells
Decals == 1..NumDecals
BlendDecals == 1..NumBlendDecals

\* Values of a sample: silence (0) and NumSamples other values.
Samples == 0..NumSamples

\* mesh::RenderPath of a bundle
RenderPaths == {"Deferred", "Forward"}

VARIABLES
    frame,          \* number of the current call of fill (0 before the first)
    args,           \* GBufferRenderContext of the current call
    pc,             \* index into FillSteps of the next statement, 0 outside a call
    state,          \* stage of the frame completed last
    statistics,     \* RenderPassStatistics accumulated by the current call
    result,         \* value returned by the last finished call
    grid_cache,     \* occlusion_tester.grid_cache: cell -> visibility of objects
    queries,        \* occlusion queries in flight, per object
    drawn,          \* objects whose instances the geometry pass drew in this call
    read_src,       \* frames of issue of the cache entries the filter consulted
    issued,         \* objects handed to try_run_visibility_test in this call
    decal_draws,    \* decals drawn by this call, in order
    events,         \* statements executed by this call, in order
    gbuffer,        \* the GBuffer value, once GBuffer::new has returned it
    ctor,           \* progress and outcome of the call of GBuffer::new
    surfaces,       \* content of the six textures: what was written, in order
    delay_line,     \* the DelayLine value: samples, last, pos
    fed,            \* samples passed to DelayLine::feed, in order
    returned,       \* values DelayLine::feed returned, in order
    builder,        \* the CameraBuilder value
    calls,          \* builder methods called so far, with their arguments
    camera,         \* the Camera that build_camera returned
    sky_box,        \* the SkyBox value: its six faces and its cubemap
    sky_result,     \* the last call on the sky box and what it returned
    unwrapped_lut,  \* the texture passed to ColorGradingLut::new
    lut_result,     \* what ColorGradingLut::new returned
    curve_editor_window, \* the window of the curve editor plugin, if any
    files,          \* the curve files that CurveEditorWindow::save wrote
    ui_message      \* the last message the curve editor handled, and how

vars == <<frame, args, pc, state, statistics, result, grid_cache, queries,
          drawn, read_src, issued, decal_draws, events, gbuffer, ctor, surfaces,
          delay_line, fed, returned, builder, calls, camera, sky_box,
          sky_result, unwrapped_lut, lut_result, curve_editor_window, files,
          ui_message>>

\* State of the G-buffer and of its construction.
gbuffer_vars == <<frame, args, pc, state, statistics, result, grid_cache,
                  queries, drawn, read_src, issued, decal_draws, events,
                  gbuffer, ctor, surfaces>>

\* State of the delay line.
delay_vars == <<delay_line, fed, returned>>

\* State of the camera builder.
builder_vars == <<builder, calls, camera>>

\* State of the sky box.
sky_vars == <<sky_box, sky_result>>

\* State of the creation of a color grading table.
lut_vars == <<unwrapped_lut, lut_result>>

curve_vars == <<curve_editor_window, files, ui_message>>

\* State of the programs other than the G-buffer.
others == <<delay_vars, builder_vars, sky_vars, lut_vars, curve_vars>>

\* What the calls on one of these programs leave alone.
not_delay == <<gbuffer_vars, builder_vars, sky_vars, lut_vars, curve_vars>>

not_builder == <<gbuffer_vars, delay_vars, sky_vars, lut_vars, curve_vars>>

not_sky == <<gbuffer_vars, delay_vars, builder_vars, lut_vars, curve_vars>>

not_lut == <<gbuffer_vars, delay_vars, builder_vars, sky_vars, curve_vars>>

not_curve == <<gbuffer_vars, delay_vars, builder_vars, sky_vars, lut_vars>>

\* ------------------------------------------------------------- data shapes
\* Sequences of pairwise different decals, as the scene graph iterates them.
RECURSIVE DecalOrders(_)
DecalOrders(n) ==
    IF n = 0 THEN {<<>>}
    ELSE LET shorter == DecalOrders(n - 1)
         IN shorter \cup
            {Append(s, d) : s \in {t \in shorter : Len(t) = n - 1},
                            d \in Decals}

Range(s) == {s[i] : i \in DOMAIN s}

DecalLists == {s \in DecalOrders(NumDecals) : Cardinality(Range(s)) = Len(s)}

\* bundle_storage.bundles: one bundle per render path, its instances given
\* by the node handles they carry.
BundleStorages == [RenderPaths -> SUBSET Objects]

NoEntry == [vis |-> "Undefined", src |-> 0]
EmptyCell == [recorded |-> FALSE, map |-> [o \in Objects |-> NoEntry]]
NoQuery == [status |-> "none", frame |-> 0, cell |-> 1, result |-> "Undefined"]

\* RenderPassStatistics::default()
ZeroStatistics == [draw_calls |-> 0, triangles_rendered |-> 0]

NoResult == [kind |-> "None", stats |-> ZeroStatistics, at |-> "none"]

\* A matrix, as far as its inverse goes.
Matrices == {"regular", "singular"}

\* The product of two matrices.
Product(a, b) == IF a = "singular" \/ b = "singular" THEN "singular" ELSE "regular"

\* Matrix4::try_inverse
TryInverse(m) == IF m = "singular" THEN "None" ELSE "inverse"

\* Option::unwrap_or_default
UnwrapOrDefault(option) == IF option = "None" THEN "default" ELSE option

\* The matrices of a frame: view and projection matrix of the camera and the
\* global transform of the decals.
FrameMatrices == [view : Matrices, projection : Matrices, decal_transform : Matrices]

RegularMatrices ==
    [view |-> "regular", projection |-> "regular", decal_transform |-> "regular"]

\* Decal lists of the scenes used to check the compositing of several decals.
BlendDecalLists ==
    {s \in UNION {[1..n -> BlendDecals] : n \in 0..NumBlendDecals} :
        Cardinality(Range(s)) = Len(s)}

\* Bundle storages without forward bundles.
DeferredStorages == {b \in BundleStorages : b["Forward"] = {}}

\* How a texture of a decal stands: not assigned, assigned but not (yet)
\* in the texture cache, or assigned and in the cache.
TextureStates == {"none", "unavailable", "loaded"}

\* Colours are one channel wide and alpha counts halves (2 is opaque).
Colors == {0, 4, 8}
Alphas == {1, 2}

\* Decal nodes: their textures, colour and the alpha their fragments get.
\* The first decal of a scene is the lighter one.
DecalNodes(d) ==
    [diffuse_texture : TextureStates, normal_texture : TextureStates,
     color : {IF d = 1 THEN 4 ELSE 0}, alpha : Alphas]

PlainDecal ==
    [diffuse_texture |-> "loaded", normal_texture |-> "loaded", color |-> 4, alpha |-> 1]

PlainScene == [d \in Decals |-> PlainDecal]

BlendScenes ==
    {s \in [BlendDecals -> UNION {DecalNodes(d) : d \in BlendDecals}] :
        \A d \in BlendDecals : s[d] \in DecalNodes(d)}

\* --------------------------------------------------------------- DelayLine
\* DelayLine::new(len): len samples of silence, last 0.0, pos 0.
DelayLineNew(len) ==
    [samples |-> [i \in 1..len |-> 0], last |-> 0, pos |-> 0]

\* DelayLine::len
DelayLineLen(d) == Len(d.samples)

\* The position after a feed that wraps around one sample early.
Advance_Early(pos, len) == IF pos + 1 >= len - 1 THEN 0 ELSE pos + 1

\* self.pos += 1; if self.pos >= len as u32 { self.pos -= len as u32 }
\* (pos is a u32; a vector of 2^32 samples or more is out of reach here).
Advance(pos, len) == IF pos + 1 >= len THEN pos + 1 - len ELSE pos + 1

\* DelayLine::feed: the value of the delay line after the call. samples.0[pos]
\* is element pos + 1 of the sequence.
DelayLineFeed(d, sample) ==
    [samples |-> [d.samples EXCEPT ![d.pos + 1] = sample],
     last |-> d.samples[d.pos + 1],
     pos |-> Advance(d.pos, DelayLineLen(d))]

\* DelayLine::last
DelayLineLast(d) == d.last

\* No delay line has been created.
NoDelayLine == [samples |-> <<>>, last |-> 0, pos |-> 0]

NoDelay ==
    /\ delay_line = NoDelayLine
    /\ fed = <<>>
    /\ returned = <<>>

\* ----------------------------------------------------------- CameraBuilder
\* f32 values are written in thousandths. The defaults of
\* PerspectiveProjection (lines 66-68), which CameraBuilder::new repeats for
\* its own fields (lines 815-817): 75 degrees in radians, 0.025 and 2048.0.
DefaultFov == 1309
DefaultZNear == 25
DefaultZFar == 2048000

\* The defaults of OrthographicProjection (lines 105-107).
OrthographicZNear == 0
OrthographicZFar == 2048000
OrthographicVerticalSize == 5000

\* Arguments of the builder methods: the defaults and NumValues other values.
Floats == {DefaultFov, DefaultZNear, DefaultZFar} \cup {1000 * v : v \in 1..NumValues}

\* Projection::Perspective(v) and Projection::Orthographic(v); a field the
\* variant does not have is 0.
Perspective(fov, z_near, z_far) ==
    [kind |-> "Perspective", fov |-> fov, z_near |-> z_near, z_far |-> z_far,
     vertical_size |-> 0]

Orthographic(z_near, z_far, vertical_size) ==
    [kind |-> "Orthographic", fov |-> 0, z_near |-> z_near, z_far |-> z_far,
     vertical_size |-> vertical_size]

\* impl Default for Projection
DefaultProjection == Perspective(DefaultFov, DefaultZNear, DefaultZFar)

\* Arguments of with_projection.
Projections ==
    {DefaultProjection,
     Orthographic(OrthographicZNear, OrthographicZFar, OrthographicVerticalSize)}
    \cup {Perspective(1000 * v, 1000 * v, 1000 * v) : v \in 1..NumValues}

\* Projection::z_near and Projection::z_far
z_near(projection) == projection.z_near

z_far(projection) == projection.z_far

\* CameraBuilder::new
CameraBuilderNew ==
    [fov |-> DefaultFov, z_near |-> DefaultZNear, z_far |-> DefaultZFar,
     projection |-> DefaultProjection]

\* build_camera: projection: self.projection.into()
BuildProjection(b) == b.projection

\* The value of camera before build_camera has returned.
NoCamera == [built |-> FALSE, projection |-> DefaultProjection]

NoCameraBuilder ==
    /\ builder = CameraBuilderNew
    /\ calls = <<>>
    /\ camera = NoCamera

\* ------------------------------------------------------------------ SkyBox
\* Number of bytes of a pixel of each TexturePixelKind used here (R8: lines
\* 1157-1158; RGBA8 and RGB8: lines 725-729).
BytesPerPixel(pixel_kind) ==
    CASE pixel_kind = "R8" -> 1
      [] pixel_kind = "RGB8" -> 3
      [] pixel_kind = "RGBA8" -> 4
      [] OTHER -> 0

\* A texture resource: its ResourceState, and for a loaded one its
\* TextureKind (Rectangle { width, height } or Volume { width, height,
\* depth }), its pixel kind and the length of first_mip_level_data(). A
\* field the value does not have is 0 or "".
Tex(resource_state, kind, width, height, layers, pixel_kind) ==
    [some |-> TRUE, state |-> resource_state, kind |-> kind, width |-> width,
     height |-> height, depth |-> layers, pixel_kind |-> pixel_kind,
     bytes |-> width * height * (IF kind = "Volume" THEN layers ELSE 1)
               * BytesPerPixel(pixel_kind)]

\* Option::None of a face.
None ==
    [some |-> FALSE, state |-> "", kind |-> "", width |-> 0, height |-> 0,
     depth |-> 0, pixel_kind |-> "", bytes |-> 0]

\* A texture that is still loading.
Pending == [None EXCEPT !.some = TRUE, !.state = "Pending"]

\* Pixel kinds of the faces.
SkyPixelKinds == {"R8", "RGB8"}

\* The textures a face is drawn from: loaded rectangles of every size, loaded
\* volumes of one layer, and a texture that is not ready.
FaceTextures ==
    {Tex("Ok", "Rectangle", w, h, 0, k) :
        w \in 1..MaxSide, h \in 1..MaxSide, k \in SkyPixelKinds}
    \cup {Tex("Ok", "Volume", w, w, 1, k) : w \in 1..MaxSide, k \in SkyPixelKinds}
    \cup {Pending}

\* Number of faces of a sky box, and their order in SkyBox::textures:
\* 0 - Left, 1 - Right, 2 - Top, 3 - Bottom, 4 - Front, 5 - Back.
FaceNames == <<"left", "right", "top", "bottom", "front", "back">>

FaceIndices == 0..(Len(FaceNames) - 1)

\* SkyBox::textures, indexed from 0 as the code does.
textures(faces, index) == faces[index + 1]

\* The sets of six faces of which at most MaxProvided are provided.
FaceSets ==
    {f \in [1..Len(FaceNames) -> FaceTextures \cup {None}] :
        Cardinality({i \in 1..Len(FaceNames) : f[i].some}) <= MaxProvided}

\* Values of Result<(), SkyBoxError>.
SkyOk ==
    [error |-> "Ok", index |-> 0, width |-> 0, height |-> 0, pixel_kind |-> "",
     expected_width |-> 0, expected_height |-> 0, expected_pixel_kind |-> "",
     kind |-> ""]

NonSquareTexture(index, width, height) ==
    [SkyOk EXCEPT !.error = "NonSquareTexture", !.index = index,
                  !.width = width, !.height = height]

DifferentTexture(first_info, index, texture) ==
    [SkyOk EXCEPT !.error = "DifferentTexture", !.index = index,
                  !.expected_width = first_info.width,
                  !.expected_height = first_info.height,
                  !.expected_pixel_kind = first_info.pixel_kind,
                  !.width = texture.width, !.height = texture.height,
                  !.pixel_kind = texture.pixel_kind]

TextureIsNotReady(index) ==
    [SkyOk EXCEPT !.error = "TextureIsNotReady", !.index = index]

UnsupportedTextureKind(kind) ==
    [SkyOk EXCEPT !.error = "UnsupportedTextureKind", !.kind = kind]

UnableToBuildCubeMap == [SkyOk EXCEPT !.error = "UnableToBuildCubeMap"]

\* Whether Texture::from_bytes(kind, pixel_kind, bytes, ..) returns Some, for
\* a kind of that many pixels and that many bytes. The function is not part
\* of these sources: it is taken to return Some for as many bytes as the
\* pixels need, which the unwrap of line 756 relies on, and Some or None for
\* any other number.
FromBytesOutcomes(pixels, pixel_kind, len) ==
    IF len = pixels * BytesPerPixel(pixel_kind) THEN {TRUE} ELSE BOOLEAN

\* let mut first_info: Option<TextureInfo> = None
NoInfo == [some |-> FALSE, pixel_kind |-> "", width |-> 0, height |-> 0]

TextureInfo(texture) ==
    [some |-> TRUE, pixel_kind |-> texture.pixel_kind, width |-> texture.width,
     height |-> texture.height]

\* The checks of a rectangle with the comparison before the test of the
\* square.
CheckRectangle_DifferentFirst(first_info, index, texture) ==
    IF /\ first_info.some
       /\ \/ first_info.width # texture.width
          \/ first_info.height # texture.height
          \/ first_info.pixel_kind # texture.pixel_kind
    THEN DifferentTexture(first_info, index, texture)
    ELSE IF texture.width # texture.height
         THEN NonSquareTexture(index, texture.width, texture.height)
         ELSE SkyOk

\* Lines 1102-1131 of validate: what a loaded rectangle is checked for.
CheckRectangle(first_info, index, texture) ==
    IF texture.width # texture.height
    THEN NonSquareTexture(index, texture.width, texture.height)
    ELSE IF /\ first_info.some
            /\ \/ first_info.width # texture.width
               \/ first_info.height # texture.height
               \/ first_info.pixel_kind # texture.pixel_kind
         THEN DifferentTexture(first_info, index, texture)
         ELSE SkyOk

\* The loop of validate (lines 1098-1137) from face index on. A face that is
\* None is passed over, and so is a loaded face that is not a rectangle.
RECURSIVE ValidateFrom(_, _, _)
ValidateFrom(faces, index, first_info) ==
    IF index > Len(FaceNames) - 1 THEN SkyOk
    ELSE LET texture == textures(faces, index)
         IN  IF ~texture.some THEN ValidateFrom(faces, index + 1, first_info)
             ELSE IF texture.state # "Ok" THEN TextureIsNotReady(index)
             ELSE IF texture.kind # "Rectangle"
                  THEN ValidateFrom(faces, index + 1, first_info)
             ELSE IF CheckRectangle(first_info, index, texture) # SkyOk
                  THEN CheckRectangle(first_info, index, texture)
             ELSE ValidateFrom(faces, index + 1,
                               IF first_info.some THEN first_info
                               ELSE TextureInfo(texture))

\* SkyBox::validate
validate(s) == ValidateFrom(s.faces, 0, NoInfo)

\* Option::None of the cubemap.
NoCubemap ==
    [some |-> FALSE, width |-> 0, height |-> 0, pixel_kind |-> "", data |-> <<>>]

\* Lines 1150-1170: kind, pixel kind and bytes per face come from the first
\* face that is Some, or are a rectangle of 1 x 1, R8 and 1 without any.
KindFace(faces) ==
    IF \E i \in FaceIndices : textures(faces, i).some
    THEN textures(faces, CHOOSE i \in FaceIndices :
                    /\ textures(faces, i).some
                    /\ \A j \in FaceIndices : textures(faces, j).some => i <= j)
    ELSE Tex("Ok", "Rectangle", 1, 1, 0, "R8")

\* Lines 1177-1185: the data of the faces in the order of textures(), with
\* bytes_per_face zero bytes for a face that is None. A piece of data is the
\* face it was copied from and its length.
CubemapData(faces, bytes_per_face) ==
    [i \in 1..Len(FaceNames) |->
        IF faces[i].some THEN [of |-> faces[i], bytes |-> faces[i].bytes]
        ELSE [of |-> None, bytes |-> bytes_per_face]]

\* data.len() of the data of the six faces.
DataBytes(data) ==
    data[1].bytes + data[2].bytes + data[3].bytes + data[4].bytes
    + data[5].bytes + data[6].bytes

\* The Texture that Texture::from_bytes(TextureKind::Cube { width, height },
\* pixel_kind, data, false) returns when it returns one.
Cubemap(width, height, pixel_kind, data) ==
    [some |-> TRUE, width |-> width, height |-> height,
     pixel_kind |-> pixel_kind, data |-> data]

\* SkyBox::create_cubemap given whether Texture::from_bytes returns Some: the
\* sky box after the call and the value returned.
create_cubemap(s, from_bytes_some) ==
    LET face == KindFace(s.faces)
    IN  IF validate(s) # SkyOk THEN [sky_box |-> s, value |-> validate(s)]
        ELSE IF face.kind # "Rectangle"
             THEN [sky_box |-> s, value |-> UnsupportedTextureKind(face.kind)]
        ELSE IF ~from_bytes_some
             THEN [sky_box |-> s, value |-> UnableToBuildCubeMap]
        ELSE [sky_box |->
                 [s EXCEPT !.cubemap =
                     Cubemap(face.width, face.height, face.pixel_kind,
                             CubemapData(s.faces, face.bytes))],
              value |-> SkyOk]

\* A sky box without faces whose cubemap was built: six black faces of one
\* byte.
EmptySkyBox ==
    create_cubemap([faces |-> [i \in 1..Len(FaceNames) |-> None],
                    cubemap |-> NoCubemap], TRUE).sky_box

NoCall == [call |-> "none", value |-> SkyOk, before |-> NoCubemap]

NoSky ==
    /\ sky_box = [faces |-> [i \in 1..Len(FaceNames) |-> None],
                  cubemap |-> NoCubemap]
    /\ sky_result = NoCall

\* --------------------------------------------------------- ColorGradingLut
\* Side of the table: the 16 of lines 708-750.
LutSide == 16

\* const RGBA8_SIZE: usize = 16 * 16 * 16 * 4
RGBA8_SIZE == LutSide * LutSide * LutSide * 4

\* const RGB8_SIZE: usize = 16 * 16 * 16 * 3
RGB8_SIZE == LutSide * LutSide * LutSide * 3

\* Pixel kinds of the texture given to ColorGradingLut::new.
LutPixelKinds == {"R8", "RGB8", "RGBA8"}

\* Lengths of its data: around the two sizes, none, and those of a strip of
\* 1024 x 16 pixels, the size the documentation of new asks for (lines
\* 670-671).
DataLengths ==
    {RGB8_SIZE + d : d \in -MaxExcess..MaxExcess}
    \cup {RGBA8_SIZE + d : d \in -MaxExcess..MaxExcess}
    \cup {0, 1024 * LutSide * 3, 1024 * LutSide * 4}

\* What unwrapped_lut.await gives: a loaded texture, or an error Some(e) or
\* None.
LutTextures ==
    {[state |-> "Ok", pixel_kind |-> k, len |-> n, error |-> ""] :
        k \in LutPixelKinds, n \in DataLengths}
    \cup {[state |-> "LoadError", pixel_kind |-> "", len |-> 0, error |-> e] :
             e \in {"Some(e)", "None"}}

\* No table: ColorGradingLut::default().
NoLutValue ==
    [unwrapped_lut |-> "None",
     lut |-> [some |-> FALSE, width |-> 0, height |-> 0, depth |-> 0,
              pixel_kind |-> "", len |-> 0]]

\* Values of Result<ColorGradingLut, ColorGradingLutCreationError>, and a
\* panic.
LutReturn(kind, error, required, current, pixel_kind, value) ==
    [kind |-> kind, error |-> error, required |-> required,
     current |-> current, pixel_kind |-> pixel_kind, value |-> value]

NoLutResult == LutReturn("none", "", 0, 0, "", NoLutValue)

\* The size test with "fewer than" in the place of "other than".
WrongSize_Fewer(len, required) == len < required

\* bytes.len() != RGBA8_SIZE, bytes.len() != RGB8_SIZE (lines 712, 718)
WrongSize(len, required) == len # required

\* let pixel_size = if data.pixel_kind() == TexturePixelKind::RGBA8 { 4 }
\* else { 3 }
PixelSize(pixel_kind) == IF pixel_kind = "RGBA8" THEN 4 ELSE 3

\* pixel_byte_pos of the loop of lines 733-744.
PixelBytePos(z, y, x, pixel_size) ==
    (z * LutSide + y * LutSide * LutSide + x) * pixel_size

\* The loop reads bytes[pixel_byte_pos + 2] at most: whether one of its reads
\* is past the end of the data.
ReadsPastEnd(len, pixel_size) ==
    \E z, y, x \in 0..(LutSide - 1) : PixelBytePos(z, y, x, pixel_size) + 2 >= len

\* lut_bytes.len() after the loop: three pushes per pixel of the table.
LutBytesLen == 3 * Cardinality((0..(LutSide - 1)) \X (0..(LutSide - 1)) \X (0..(LutSide - 1)))

\* ColorGradingLut::new (lines 693-773), given the texture the await gives
\* and whether Texture::from_bytes returns Some.
ColorGradingLutNew(texture, from_bytes_some) ==
    IF texture.state # "Ok"
    THEN LutReturn("Err", "Texture", 0, 0, "", NoLutValue)
    ELSE IF texture.pixel_kind # "RGBA8" /\ texture.pixel_kind # "RGB8"
    THEN LutReturn("Err", "InvalidPixelFormat", 0, 0, texture.pixel_kind,
                   NoLutValue)
    ELSE IF texture.pixel_kind = "RGBA8" /\ WrongSize(texture.len, RGBA8_SIZE)
    THEN LutReturn("Err", "NotEnoughData", RGBA8_SIZE, texture.len, "",
                   NoLutValue)
    ELSE IF texture.pixel_kind # "RGBA8" /\ WrongSize(texture.len, RGB8_SIZE)
    THEN LutReturn("Err", "NotEnoughData", RGB8_SIZE, texture.len, "",
                   NoLutValue)
    ELSE IF ReadsPastEnd(texture.len, PixelSize(texture.pixel_kind))
            \/ ~from_bytes_some
    THEN LutReturn("Panic", "", 0, 0, "", NoLutValue)
    ELSE LutReturn("Ok", "", 0, 0, "",
                   [unwrapped_lut |-> "Some",
                    lut |-> [some |-> TRUE, width |-> LutSide,
                             height |-> LutSide, depth |-> LutSide,
                             pixel_kind |-> "RGB8", len |-> LutBytesLen]])

NoLut ==
    /\ unwrapped_lut = [state |-> "Ok", pixel_kind |-> "RGB8", len |-> 0,
                        error |-> ""]
    /\ lut_result = NoLutResult

\* ------------------------------------------------------------ curve editor
\* Curve::default() (curve_editor.rs lines 306, 507).
DefaultCurve == 0

\* PathBuf::default(), the path of a curve that has no file (lines 303, 504).
DefaultPath == 0

\* The curves: the default one and NumCurves others.
Curves == 0..NumCurves

\* The paths a file selector commits.
Paths == 1..NumPaths

\* Option<CurveResource>, and the curve the resource holds.
NoResource == [some |-> FALSE, curve |-> DefaultCurve]

CurveResource(curve) == [some |-> TRUE, curve |-> curve]

\* CommandStack::new(false, 2048) (line 296): the commands, and how many of
\* them are done.
CommandStackNew == [commands |-> <<>>, top |-> 0]

\* CurveEditorWindow::new (lines 123-309), the fields that are not handles.
CurveEditorWindowNew ==
    [curve_resource |-> NoResource, command_stack |-> CommandStackNew,
     path |-> DefaultPath, modified |-> FALSE, backup |-> DefaultCurve]

\* A file on disk.
NoFile == [some |-> FALSE, curve |-> DefaultCurve]

CurveFile(curve) == [some |-> TRUE, curve |-> curve]

\* A message of the user interface: its data with the curve, path or answer
\* it carries, its destination, direction and flags, and whether the file
\* operation its handling performs (writing the file, requesting the
\* resource) succeeds.
UiMessage(data, destination, direction, flags, curve, at, answer, io_ok) ==
    [data |-> data, destination |-> destination, direction |-> direction,
     flags |-> flags, curve |-> curve, path |-> at, answer |-> answer,
     io_ok |-> io_ok]

NoUiMessage == UiMessage("none", "", "", "0", DefaultCurve, DefaultPath, "", TRUE)

ButtonMessages ==
    {UiMessage("ButtonMessage::Click", d, "FromWidget", "0", DefaultCurve,
               DefaultPath, "", io) :
        d \in {"ok", "cancel", "other"}, io \in BOOLEAN}

\* CurveEditorMessage::Sync with one curve: the widget of the window shows
\* the one curve that sync_to_model sent it.
SyncMessages ==
    {UiMessage("CurveEditorMessage::Sync", m[1], m[2], m[3], m[4], DefaultPath,
               "", TRUE) :
        m \in {"curve_editor", "other"} \X {"FromWidget", "ToWidget"}
              \X {"0", "MSG_SYNC_FLAG"} \X Curves}

MenuItemMessages ==
    {UiMessage("MenuItemMessage::Click", d, "FromWidget", "0", DefaultCurve,
               DefaultPath, "", io) :
        d \in {"undo", "redo", "load", "new", "save", "other"},
        io \in BOOLEAN}

\* FileSelectorMessage::Commit(path); for the load selector, curve is the
\* curve of the resource the resource manager returns when io_ok.
FileSelectorMessages ==
    {UiMessage("FileSelectorMessage::Commit", m[1], "FromWidget", "0", m[2],
               m[3], "", m[4]) :
        m \in {"load_file_selector", "save_file_selector", "other"}
              \X Curves \X Paths \X BOOLEAN}

\* MessageBoxMessage::Close(result)
MessageBoxMessages ==
    {UiMessage("MessageBoxMessage::Close", m[1], "FromWidget", "0",
               DefaultCurve, DefaultPath, m[2], m[3]) :
        m \in {"save_changes_message_box", "cancel_message_box", "other"}
              \X {"Yes", "No", "Cancel"} \X BOOLEAN}

OtherMessages ==
    {UiMessage("other", "other", "FromWidget", "0", DefaultCurve, DefaultPath,
               "", TRUE)}

\* What handle_ui_message did: the window (the value it returned, or the one
\* it consumed), the files, the messages it sent, and Some, None or Panic.
Handled(w, fs, sent, ret) ==
    [window |-> w, files |-> fs, sent |-> sent, returned |-> ret]

\* ModifyCurveCommand::swap (lines 70-74) of the command's curve with the
\* curve of the resource, as CommandStack::do_command executes it on a new
\* command (lines 470-476): the commands that were undone are dropped.
DoCommand(w, curve) ==
    LET kept == SubSeq(w.command_stack.commands, 1, w.command_stack.top)
    IN [w EXCEPT !.curve_resource.curve = curve,
                 !.command_stack =
                     [commands |-> Append(kept, w.curve_resource.curve),
                      top |-> Len(kept) + 1]]

\* CommandStack::undo (line 483): ModifyCurveCommand::revert (lines 84-86)
\* of the last command done.
Undo(w) ==
    LET top == w.command_stack.top
    IN IF top = 0 THEN w
       ELSE [w EXCEPT !.curve_resource.curve = w.command_stack.commands[top],
                      !.command_stack.commands[top] = w.curve_resource.curve,
                      !.command_stack.top = top - 1]

\* CommandStack::redo (line 487): ModifyCurveCommand::execute (lines 80-82)
\* of the first command undone.
Redo(w) ==
    LET top == w.command_stack.top
    IN IF top = Len(w.command_stack.commands) THEN w
       ELSE [w EXCEPT !.curve_resource.curve = w.command_stack.commands[top + 1],
                      !.command_stack.commands[top + 1] = w.curve_resource.curve,
                      !.command_stack.top = top + 1]

\* CurveEditorWindow::sync_to_model (lines 343-354)
sync_to_model(w) == IF w.curve_resource.some THEN {"curve_editor.sync"} ELSE {}

\* A set_curve that keeps the commands of the curve set before.
set_curve_KeepCommands(w, curve) ==
    [w EXCEPT !.backup = curve,
              !.curve_resource = CurveResource(curve),
              !.modified = FALSE]

\* CurveEditorWindow::set_curve (lines 366-387)
set_curve(w, curve) ==
    [w EXCEPT !.backup = curve,
              !.curve_resource = CurveResource(curve),
              !.modified = FALSE,
              !.command_stack = CommandStackNew]

\* A revert that leaves the curve of the resource as edited.
revert_Keep(w) == w

\* CurveEditorWindow::revert (lines 408-412)
revert(w) ==
    IF w.curve_resource.some
    THEN [w EXCEPT !.curve_resource.curve = w.backup]
    ELSE w

\* CurveEditorWindow::save (lines 356-364) writes a file.
Saves(w) == w.curve_resource.some

\* The files after save.
save(w, fs) ==
    IF Saves(w)
    THEN [fs EXCEPT ![w.path] = CurveFile(w.curve_resource.curve)]
    ELSE fs

\* The window is returned.
Kept(w, fs, sent) == Handled(w, fs, sent, "Some")

\* CurveEditorWindow::destroy and return None (lines 311-332, 442-443).
Destroyed(w, fs) == Handled(w, fs, {"window.close"}, "None")

\* save, and what follows it unless the unwrap of line 361 panics.
SaveThen(w, fs, io_ok, then) ==
    IF Saves(w) /\ ~io_ok THEN Handled(w, fs, {}, "Panic") ELSE then

\* self.save(); self.destroy(ui); return None (lines 455-457, 542-544).
SaveAndDestroy(w, fs, io_ok) == SaveThen(w, fs, io_ok, Destroyed(w, save(w, fs)))

\* The window asks before it closes (lines 434, 446).
AsksBeforeClose(w) == w.modified /\ w.curve_resource.some

\* A cancel button that closes the window without asking.
ClickCancel_Direct(w, fs) == Destroyed(w, fs)

\* ButtonMessage::Click of the cancel button (lines 433-444).
ClickCancel(w, fs) ==
    IF AsksBeforeClose(w)
    THEN Kept(w, fs, {"cancel_message_box.open"})
    ELSE Destroyed(w, fs)

\* ButtonMessage::Click of the ok button (lines 445-463).
ClickOk(w, fs, io_ok) ==
    IF AsksBeforeClose(w)
    THEN IF w.path = DefaultPath
         THEN Kept(w, fs, {"save_changes_message_box.open"})
         ELSE SaveAndDestroy(w, fs, io_ok)
    ELSE Destroyed(w, fs)

\* The test of lines 465-467 on a CurveEditorMessage::Sync.
FromCurveEditor(m) ==
    /\ m.destination = "curve_editor"
    /\ m.direction = "FromWidget"
    /\ m.flags # "MSG_SYNC_FLAG"

\* A window that takes every Sync of its widget for an edit.
OnSync_AnyDirection(w, fs, m) ==
    IF m.destination = "curve_editor" /\ w.curve_resource.some
    THEN Kept([DoCommand(w, m.curve) EXCEPT !.modified = TRUE], fs, {})
    ELSE Kept(w, fs, {})

\* CurveEditorMessage::Sync (lines 464-480)
OnSync(w, fs, m) ==
    IF FromCurveEditor(m) /\ w.curve_resource.some
    THEN Kept([DoCommand(w, m.curve) EXCEPT !.modified = TRUE], fs, {})
    ELSE Kept(w, fs, {})

\* MenuItemMessage::Click (lines 481-517)
OnMenuItem(w, fs, m) ==
    CASE m.destination = "undo" -> Kept(Undo(w), fs, sync_to_model(Undo(w)))
      [] m.destination = "redo" -> Kept(Redo(w), fs, sync_to_model(Redo(w)))
      [] m.destination = "load" -> Kept(w, fs, {"load_file_selector.open"})
      [] m.destination = "new" ->
            Kept(set_curve([w EXCEPT !.path = DefaultPath], DefaultCurve), fs,
                 {"curve_editor.sync"})
      [] m.destination = "save" ->
            IF w.path = DefaultPath
            THEN Kept(w, fs, {"save_file_selector.open"})
            ELSE SaveThen(w, fs, m.io_ok, Kept(w, save(w, fs), {}))
      [] OTHER -> Kept(w, fs, {})

\* FileSelectorMessage::Commit (lines 518-529)
OnCommit(w, fs, m) ==
    CASE m.destination = "load_file_selector" ->
            IF m.io_ok
            THEN Kept(set_curve([w EXCEPT !.path = m.path], m.curve), fs,
                      {"curve_editor.sync"})
            ELSE Kept(w, fs, {})
      [] m.destination = "save_file_selector" ->
            LET named == [w EXCEPT !.path = m.path]
            IN SaveThen(named, fs, m.io_ok, Kept(named, save(named, fs), {}))
      [] OTHER -> Kept(w, fs, {})

\* MessageBoxMessage::Close of the save-changes box (lines 531-548).
CloseSaveChanges(w, fs, m) ==
    CASE m.answer = "No" -> Destroyed(revert(w), fs)
      [] m.answer = "Yes" ->
            IF w.path = DefaultPath
            THEN Kept(w, fs, {"save_file_selector.open"})
            ELSE SaveAndDestroy(w, fs, m.io_ok)
      [] OTHER -> Kept(w, fs, {})

\* MessageBoxMessage::Close of the cancel box (lines 549-555).
CloseCancel(w, fs, m) ==
    IF m.answer = "Yes" THEN Destroyed(revert(w), fs) ELSE Kept(w, fs, {})

\* MessageBoxMessage::Close (lines 530-556)
OnClose(w, fs, m) ==
    CASE m.destination = "save_changes_message_box" -> CloseSaveChanges(w, fs, m)
      [] m.destination = "cancel_message_box" -> CloseCancel(w, fs, m)
      [] OTHER -> Kept(w, fs, {})

\* CurveEditorWindow::handle_ui_message (lines 429-559)
handle_ui_message(w, fs, m) ==
    CASE m.data = "ButtonMessage::Click" ->
            (CASE m.destination = "cancel" -> ClickCancel(w, fs)
               [] m.destination = "ok" -> ClickOk(w, fs, m.io_ok)
               [] OTHER -> Kept(w, fs, {}))
      [] m.data = "CurveEditorMessage::Sync" -> OnSync(w, fs, m)
      [] m.data = "MenuItemMessage::Click" -> OnMenuItem(w, fs, m)
      [] m.data = "FileSelectorMessage::Commit" -> OnCommit(w, fs, m)
      [] m.data = "MessageBoxMessage::Close" -> OnClose(w, fs, m)
      [] OTHER -> Kept(w, fs, {})

\* CurveEditorPlugin::default (lines 561-565): no window, no file written,
\* no message handled.
NoCurveEditor ==
    /\ curve_editor_window = [some |-> FALSE, window |-> CurveEditorWindowNew]
    /\ files = [p \in Paths |-> NoFile]
    /\ ui_message = [message |-> NoUiMessage, sent |-> {}, returned |-> "Absent"]

\* Every program other than the G-buffer is at rest.
OthersIdle ==
    /\ NoDelay
    /\ NoCameraBuilder
    /\ NoSky
    /\ NoLut
    /\ NoCurveEditor

\* ------------------------------------------------------ occlusion tester
\* NodeVisibilityMap::is_visible: an object without an entry needs rendering.
IsVisible(cell, o) == cell.map[o].vis # "Invisible"

\* OcclusionTester::try_query_visibility_results: every resolved query is
\* written to the cell it was issued from and its token is released;
\* unresolved queries are left as they are.
ResolvedIn(c) == {o \in Objects : queries[o].status = "resolved" /\ queries[o].cell = c}

TryQueryVisibilityResultsCache ==
    [c \in Cells |->
        [recorded |-> grid_cache[c].recorded \/ ResolvedIn(c) # {},
         map |-> [o \in Objects |->
                    IF o \in ResolvedIn(c)
                    THEN [vis |-> queries[o].result, src |-> queries[o].frame]
                    ELSE grid_cache[c].map[o]]]]

TryQueryVisibilityResultsQueries ==
    [o \in Objects |-> IF queries[o].status = "resolved" THEN NoQuery ELSE queries[o]]

\* OcclusionTester::try_run_visibility_test: one query per object of the set,
\* tagged with the observer's cell.  An object whose token is still in
\* flight, or resolved and not yet consumed, keeps that token.
TryRunVisibilityTest(objects, cell) ==
    [o \in Objects |->
        IF o \in objects /\ queries[o].status = "none"
        THEN [status |-> "pending", frame |-> frame, cell |-> cell, result |-> "Undefined"]
        ELSE queries[o]]

\* ------------------------------------------------------------ GBuffer::new
Sizes == 1..MaxSize

\* The six textures of the G-buffer, in the order new creates them, with
\* their PixelKind.
SurfaceNames ==
    <<"depth_stencil", "diffuse_texture", "normal_texture", "ambient_texture",
      "decal_mask_texture", "material_texture">>

PixelKindOf(name) ==
    CASE name = "depth_stencil" -> "D24S8"
      [] name = "diffuse_texture" -> "RGBA8"
      [] name = "normal_texture" -> "RGBA8"
      [] name = "ambient_texture" -> "RGBA16F"
      [] name = "decal_mask_texture" -> "R8UI"
      [] name = "material_texture" -> "RGBA8"

\* Everything new asks the server for, in the order of the requests; each of
\* them ends with the ? operator.
NewSteps ==
    SurfaceNames \o
    <<"framebuffer", "decal_framebuffer", "decal_shader", "cube", "occlusion_tester">>

\* server.create_texture(GpuTextureKind::Rectangle { width, height }, kind, ..)
CreateTexture(name, width, height) ==
    [name |-> name, kind |-> PixelKindOf(name), width |-> width, height |-> height]

\* Any other resource of the G-buffer.
CreateResource(name) == [name |-> name, kind |-> "none", width |-> 0, height |-> 0]

NoGBuffer ==
    [status |-> "none", width |-> 0, height |-> 0,
     textures |-> <<>>,
     framebuffer |-> [depth |-> "none", colors |-> <<>>],
     decal_framebuffer |-> [depth |-> "none", colors |-> <<>>]]

\* A GBuffer whose width and height fields are exchanged.
NewGBuffer_SwappedFields(width, height, made) ==
    [status |-> "ok",
     width |-> height,
     height |-> width,
     textures |-> SubSeq(made, 1, Len(SurfaceNames)),
     framebuffer |->
        [depth |-> "depth_stencil",
         colors |-> <<"diffuse_texture", "normal_texture", "ambient_texture",
                      "material_texture", "decal_mask_texture">>],
     decal_framebuffer |->
        [depth |-> "none", colors |-> <<"diffuse_texture", "normal_texture">>]]

\* A GBuffer whose colour attachments are in the order of their creation.
NewGBuffer_CreationOrder(width, height, made) ==
    [status |-> "ok",
     width |-> width,
     height |-> height,
     textures |-> SubSeq(made, 1, Len(SurfaceNames)),
     framebuffer |->
        [depth |-> "depth_stencil",
         colors |-> <<"diffuse_texture", "normal_texture", "ambient_texture",
                      "decal_mask_texture", "material_texture">>],
     decal_framebuffer |->
        [depth |-> "none", colors |-> <<"diffuse_texture", "normal_texture">>]]

\* Ok(Self { framebuffer, width: width as i32, height: height as i32, .. });
\* the sizes a backend allocates are below 2^31, where the cast keeps them.
NewGBuffer(width, height, made) ==
    [status |-> "ok",
     width |-> width,
     height |-> height,
     textures |-> SubSeq(made, 1, Len(SurfaceNames)),
     framebuffer |->
        [depth |-> "depth_stencil",
         colors |-> <<"diffuse_texture", "normal_texture", "ambient_texture",
                      "material_texture", "decal_mask_texture">>],
     decal_framebuffer |->
        [depth |-> "none", colors |-> <<"diffuse_texture", "normal_texture">>]]

\* All resources of a G-buffer of the given size.
AllMade(width, height) ==
    [i \in DOMAIN NewSteps |->
        IF i <= Len(SurfaceNames)
        THEN CreateTexture(NewSteps[i], width, height)
        ELSE CreateResource(NewSteps[i])]

NoCtor == [pc |-> 0, width |-> 0, height |-> 0, made |-> <<>>, result |-> "None"]

\* GBuffer::new(server, width, height) is called.
NewCall(width, height) ==
    /\ ctor = NoCtor
    /\ gbuffer = NoGBuffer
    /\ ctor' = [pc |-> 1, width |-> width, height |-> height, made |-> <<>>,
                result |-> "None"]
    /\ UNCHANGED <<frame, args, pc, state, statistics, result, grid_cache,
                   queries, drawn, read_src, issued, decal_draws, events, gbuffer,
                   surfaces>>
    /\ UNCHANGED others

\* A request that fails is noted and the next one is made all the same.
NewAlloc_CarryOn ==
    /\ ctor.pc \in DOMAIN NewSteps
    /\ LET name == NewSteps[ctor.pc]
           made == IF ctor.pc <= Len(SurfaceNames)
                   THEN CreateTexture(name, ctor.width, ctor.height)
                   ELSE CreateResource(name)
       IN \/ ctor' = [ctor EXCEPT !.made = Append(@, made), !.pc = @ + 1]
          \/ ctor' = [ctor EXCEPT !.result = name, !.pc = @ + 1]
    /\ UNCHANGED <<frame, args, pc, state, statistics, result, grid_cache,
                   queries, drawn, read_src, issued, decal_draws, events, gbuffer,
                   surfaces>>
    /\ UNCHANGED others

\* One request of new to the server: it is granted, or it fails and new
\* returns the error (result names the request that failed).
NewAlloc ==
    /\ ctor.pc \in DOMAIN NewSteps
    /\ LET name == NewSteps[ctor.pc]
           made == IF ctor.pc <= Len(SurfaceNames)
                   THEN CreateTexture(name, ctor.width, ctor.height)
                   ELSE CreateResource(name)
       IN \/ ctor' = [ctor EXCEPT !.made = Append(@, made), !.pc = @ + 1]
          \/ ctor' = [ctor EXCEPT !.result = name, !.pc = 0]
    /\ UNCHANGED <<frame, args, pc, state, statistics, result, grid_cache,
                   queries, drawn, read_src, issued, decal_draws, events, gbuffer,
                   surfaces>>
    /\ UNCHANGED others

\* Ok(Self { .. })
NewReturn ==
    /\ ctor.pc = Len(NewSteps) + 1
    /\ gbuffer' = NewGBuffer(ctor.width, ctor.height, ctor.made)
    /\ ctor' = [ctor EXCEPT !.result = "Ok", !.pc = 0]
    /\ UNCHANGED <<frame, args, pc, state, statistics, result, grid_cache,
                   queries, drawn, read_src, issued, decal_draws, events, surfaces>>
    /\ UNCHANGED others

\* ------------------------------------------------------------ GBuffer::fill
\* Statement orders that differ from the one of fill.
FillSteps_DecalsBeforeIssue == <<"poll", "clear", "geometry", "decals", "issue", "ret">>

FillSteps_IssueBeforeGeometry == <<"poll", "clear", "issue", "geometry", "decals", "ret">>

FillSteps_PollAfterIssue == <<"clear", "issue", "poll", "geometry", "decals", "ret">>

FillSteps_IssueFirst == <<"issue", "poll", "clear", "geometry", "decals", "ret">>

\* Order of the statements of fill.
FillSteps == <<"poll", "clear", "geometry", "issue", "decals", "ret">>

Step == IF pc \in DOMAIN FillSteps THEN FillSteps[pc] ELSE "none"

\* The filter without the negation of the quality setting.
InstanceFilter_NoNegation(use_occlusion_culling, grid_cell, o) ==
    \/ use_occlusion_culling
    \/ IF grid_cell.recorded THEN IsVisible(grid_cell, o) ELSE TRUE

\* The filter with map_or(false, ..): nothing is drawn from an unknown cell.
InstanceFilter_FailClosed(use_occlusion_culling, grid_cell, o) ==
    \/ ~use_occlusion_culling
    \/ IF grid_cell.recorded THEN IsVisible(grid_cell, o) ELSE FALSE

\* The filter without the test of the quality setting.
InstanceFilter_IgnoresSetting(use_occlusion_culling, grid_cell, o) ==
    IF grid_cell.recorded THEN IsVisible(grid_cell, o) ELSE TRUE

\* let instance_filter = |instance| !use_occlusion_culling
\*     || grid_cell.map_or(true, |cell| cell.is_visible(instance.node_handle))
InstanceFilter(use_occlusion_culling, grid_cell, o) ==
    \/ ~use_occlusion_culling
    \/ IF grid_cell.recorded THEN IsVisible(grid_cell, o) ELSE TRUE

\* A bundle filter that lets every render path through.
BundleFilter_AnyPath(path) == path \in RenderPaths

\* |bundle| bundle.render_path == RenderPath::Deferred
BundleFilter(path) == path = "Deferred"

\* Instances that render_to_frame_buffer submits to the frame buffer.
Submitted(bundles, use_occlusion_culling, grid_cell) ==
    {o \in Objects :
        \E p \in RenderPaths :
            /\ BundleFilter(p)
            /\ o \in bundles[p]
            /\ InstanceFilter(use_occlusion_culling, grid_cell, o)}

\* The object set taken from the instances the geometry pass drew.
CollectObjects_DrawnOnly(bundles) == drawn

\* The object set taken from the deferred bundles only.
CollectObjects_DeferredOnly(bundles) == bundles["Deferred"]

\* for bundle in bundles { for instance in bundle.instances { objects.insert(..) } }
CollectObjects(bundles) == UNION {bundles[p] : p \in RenderPaths}

\* ------------------------------------------------- content of the textures
\* The texels of a texture or of a rectangle at the origin.
Pixels(width, height) == (1..width) \X (1..height)

\* The viewport with the two fields exchanged.
Viewport_Transposed(g) == Pixels(g.height, g.width)

\* let viewport = Rect::new(0, 0, self.width, self.height);
Viewport(g) == Pixels(g.width, g.height)

Texture(g, name) == CHOOSE t \in Range(g.textures) : t.name = name

TextureRect(g, name) == Pixels(Texture(g, name).width, Texture(g, name).height)

\* Attachments of a frame buffer.
Attachments(fb) ==
    Range(fb.colors) \cup (IF fb.depth = "none" THEN {} ELSE {fb.depth})

\* self.framebuffer.color_attachments()[index].texture.clone()
ColorAttachment(g, index) == g.framebuffer.colors[index + 1]

\* The accessors of GBuffer.
depth(g) == g.framebuffer.depth

diffuse_texture(g) == ColorAttachment(g, 0)

normal_texture(g) == ColorAttachment(g, 1)

ambient_texture(g) == ColorAttachment(g, 2)

material_texture(g) == ColorAttachment(g, 3)

decal_mask_texture(g) == ColorAttachment(g, 4)

\* What was written to one texel, in order.
At(layers, p) == SelectSeq(layers, LAMBDA l : p \in l.region)

\* The content with the texels of region taken out.
Erase(layers, region) ==
    LET cut == [i \in DOMAIN layers |-> [layers[i] EXCEPT !.region = @ \ region]]
    IN SelectSeq(cut, LAMBDA l : l.region # {})

\* GpuFrameBuffer::clear(viewport, Some(color), Some(depth), Some(stencil)):
\* every attachment gets its clear value on the texels of the viewport.
FramebufferClear(content, g, fb, viewport, clear_color, clear_depth, clear_stencil, now) ==
    [n \in DOMAIN content |->
        IF n \in Attachments(fb)
        THEN LET region == viewport \cap TextureRect(g, n)
             IN Append(Erase(content[n], region),
                       [by |-> "clear", frame |-> now, region |-> region,
                        value |-> IF n = fb.depth THEN <<clear_depth, clear_stencil>> ELSE clear_color])
        ELSE content[n]]

\* Textures a draw call into fb writes: the colour attachments, and the
\* depth attachment if there is one and depth_write is set.
DrawTargets(fb, depth_write) ==
    Range(fb.colors) \cup
    (IF depth_write /\ fb.depth # "none" THEN {fb.depth} ELSE {})

\* GpuFrameBuffer::draw(.., viewport, .., params, ..)
FramebufferDraw(content, g, fb, viewport, depth_write, layer) ==
    [n \in DOMAIN content |->
        IF n \in DrawTargets(fb, depth_write)
        THEN Append(content[n],
                    [layer EXCEPT !.region = viewport \cap TextureRect(g, n),
                                  !.targets = DrawTargets(fb, depth_write)])
        ELSE content[n]]

\* Decal draws that go to the primary frame buffer.
DecalTarget_Primary(g) == g.framebuffer

\* self.decal_framebuffer.draw(..)
DecalTarget(g) == g.decal_framebuffer

\* Additive blending.
DecalBlendFunc_Additive == <<"One", "One">>

\* BlendFunc::new(BlendFactor::SrcAlpha, BlendFactor::OneMinusSrcAlpha)
DecalBlendFunc == <<"SrcAlpha", "OneMinusSrcAlpha">>

\* DrawParameters of the decal draw.
DecalDrawParameters ==
    [cull_face |-> "None", depth_write |-> FALSE, stencil_test |-> "None",
     depth_test |-> "None", blend |-> DecalBlendFunc, scissor_box |-> "None"]

\* A binding without the fallback: nothing is bound for a missing texture.
BoundTexture_NoFallback(texture, fallback) ==
    IF texture = "loaded" THEN "texture" ELSE "none"

\* decal.diffuse_texture().and_then(|t| texture_cache.get(server, t))
\*     .unwrap_or(&fallback_resources.white_dummy), and the same for normal
BoundTexture(texture, fallback) ==
    LET assigned == IF texture = "none" THEN "None" ELSE texture
        cached == IF assigned = "loaded" THEN "texture" ELSE "None"
    IN IF cached = "None" THEN fallback ELSE cached

\* Weight of a blend factor, in halves, for a source of the given alpha.
BlendFactor(factor, alpha) ==
    CASE factor = "SrcAlpha" -> alpha
      [] factor = "OneMinusSrcAlpha" -> 2 - alpha
      [] factor = "One" -> 2
      [] factor = "Zero" -> 0

\* Blending of a source over a destination with the given factors.
Blend(func, src, alpha, dst) ==
    (src * BlendFactor(func[1], alpha) + dst * BlendFactor(func[2], alpha)) \div 2

\* Colour of a texel after the writes it received, in order.
RECURSIVE Resolved(_)
Resolved(layers) ==
    IF layers = <<>> THEN 0
    ELSE LET l == layers[Len(layers)]
             below == SubSeq(layers, 1, Len(layers) - 1)
         IN CASE l.by = "clear" -> l.value[1]
              [] l.by = "geometry" -> l.value.color
              [] l.by = "decal" ->
                    Blend(l.value.blend, l.value.color, l.value.alpha, Resolved(below))

\* ------------------------------------------------------------- statistics
\* impl AddAssign for RenderPassStatistics
AddStatistics(a, b) ==
    [draw_calls |-> a.draw_calls + b.draw_calls,
     triangles_rendered |-> a.triangles_rendered + b.triangles_rendered]

\* Triangles of the surface of an instance.
SurfaceTriangles(o) == 2 * o

\* Statistics of render_to_frame_buffer: a draw call per instance drawn.
RECURSIVE GeometryStatistics(_)
GeometryStatistics(instances) ==
    IF instances = {} THEN ZeroStatistics
    ELSE LET o == CHOOSE x \in instances : TRUE
         IN AddStatistics([draw_calls |-> 1, triangles_rendered |-> SurfaceTriangles(o)],
                          GeometryStatistics(instances \ {o}))

\* Triangles of the unit cube that stands for a decal.
UnitCubeTriangles == 12

\* DrawCallStatistics of the draw of the unit cube, as RenderPassStatistics.
CubeDrawStatistics == [draw_calls |-> 1, triangles_rendered |-> UnitCubeTriangles]

\* Statistics that start from what the call before left.
InitialStatistics_CarriedOver == statistics

\* let mut statistics = RenderPassStatistics::default();
InitialStatistics == ZeroStatistics

\* The draw of a decal without the += of its statistics.
DecalStatistics_Dropped(sum, draw) == sum

\* statistics += self.decal_framebuffer.draw(..)?
DecalStatistics(sum, draw) == AddStatistics(sum, draw)

\* Return of an error by the ? operator: the call ends at once.
ReturnErr(at) ==
    /\ result' = [kind |-> "Err", stats |-> ZeroStatistics, at |-> at]
    /\ state' = "Done"
    /\ pc' = 0

\* No call of fill was made; the decal nodes of the scene are given.
NoFill(scene) ==
    /\ frame = 0
    /\ args = [use_occlusion_culling |-> FALSE,
               bundles |-> [p \in RenderPaths |-> {}],
               camera_cell |-> 1,
               decals |-> <<>>,
               scene |-> scene,
               base_color |-> 8,
               matrices |-> RegularMatrices]
    /\ pc = 0
    /\ state = "Idle"
    /\ statistics = ZeroStatistics
    /\ result = NoResult
    /\ grid_cache = [c \in Cells |-> EmptyCell]
    /\ queries = [o \in Objects |-> NoQuery]
    /\ drawn = {}
    /\ read_src = {}
    /\ issued = {}
    /\ decal_draws = <<>>
    /\ events = <<>>
    /\ surfaces = [n \in Range(SurfaceNames) |-> <<>>]

\* A G-buffer of Width x Height that GBuffer::new has returned.
Init ==
    /\ NoFill(PlainScene)
    /\ gbuffer = NewGBuffer(Width, Height, AllMade(Width, Height))
    /\ ctor = [pc |-> 0, width |-> Width, height |-> Height,
               made |-> AllMade(Width, Height), result |-> "Ok"]
    /\ OthersIdle

\* Before the call of GBuffer::new.
NewInit ==
    /\ NoFill(PlainScene)
    /\ gbuffer = NoGBuffer
    /\ ctor = NoCtor
    /\ OthersIdle

\* A G-buffer of Width x Height and a scene with several decals.
BlendInit ==
    /\ \E scene \in BlendScenes : NoFill(scene)
    /\ gbuffer = NewGBuffer(Width, Height, AllMade(Width, Height))
    /\ ctor = [pc |-> 0, width |-> Width, height |-> Height,
               made |-> AllMade(Width, Height), result |-> "Ok"]
    /\ OthersIdle

\* Entry of fill (lines 291-313): a new frame with its own arguments and
\* statistics starting from the default.
StartFillWith(settings, storages, cells, lists, matrices) ==
    /\ pc = 0
    /\ gbuffer.status = "ok"
    /\ result.kind # "Panic"
    /\ frame < MaxFrames
    /\ \E occ \in settings, b \in storages, c \in cells, d \in lists, m \in matrices :
          args' = [args EXCEPT !.use_occlusion_culling = occ, !.bundles = b,
                               !.camera_cell = c, !.decals = d, !.matrices = m]
    /\ frame' = frame + 1
    /\ pc' = 1
    /\ state' = "Idle"
    /\ statistics' = InitialStatistics
    /\ result' = NoResult
    /\ drawn' = {}
    /\ read_src' = {}
    /\ issued' = {}
    /\ decal_draws' = <<>>
    /\ events' = <<>>
    /\ UNCHANGED <<grid_cache, queries, gbuffer, ctor, surfaces>>
    /\ UNCHANGED others

\* A frame of a scene with any quality setting, bundles and camera cell.
StartFill ==
    StartFillWith(BOOLEAN, BundleStorages, Cells, DecalLists, {RegularMatrices})

\* A frame of a scene without forward bundles, with any matrices.
StartMatrixFill ==
    StartFillWith(BOOLEAN, DeferredStorages, Cells, DecalLists, FrameMatrices)

\* A frame without occlusion culling of a scene with several decals.
StartBlendFill ==
    StartFillWith({FALSE}, DeferredStorages, {1}, BlendDecalLists, {RegularMatrices})

\* A frame of a plain scene without occlusion culling.
StartPlainFill ==
    StartFillWith({FALSE}, DeferredStorages, {1}, DecalLists, {RegularMatrices})

\* A poll that waits until no query is in flight.
PollStep_Blocking ==
    /\ Step = "poll"
    /\ IF args.use_occlusion_culling
       THEN /\ \A o \in Objects : queries[o].status # "pending"
            /\ grid_cache' = TryQueryVisibilityResultsCache
            /\ queries' = TryQueryVisibilityResultsQueries
            /\ events' = Append(events, "poll")
       ELSE UNCHANGED <<grid_cache, queries, events>>
    /\ pc' = pc + 1
    /\ UNCHANGED <<frame, args, state, statistics, result, drawn, read_src,
                   issued, decal_draws, gbuffer, ctor, surfaces>>
    /\ UNCHANGED others

\* if use_occlusion_culling { occlusion_tester.try_query_visibility_results(graph) }
PollStep ==
    /\ Step = "poll"
    /\ IF args.use_occlusion_culling
       THEN /\ grid_cache' = TryQueryVisibilityResultsCache
            /\ queries' = TryQueryVisibilityResultsQueries
            /\ events' = Append(events, "poll")
       ELSE UNCHANGED <<grid_cache, queries, events>>
    /\ pc' = pc + 1
    /\ UNCHANGED <<frame, args, state, statistics, result, drawn, read_src,
                   issued, decal_draws, gbuffer, ctor, surfaces>>
    /\ UNCHANGED others

\* self.framebuffer.clear(viewport, Some(Color::from_rgba(0, 0, 0, 0)),
\*     Some(1.0), Some(0))
ClearFrameBuffer(content) ==
    FramebufferClear(content, gbuffer, gbuffer.framebuffer, Viewport(gbuffer),
                     <<0, 0, 0, 0>>, 1, 0, frame)

\* The clear of the frame buffer, the second statement of fill.
ClearStep ==
    /\ Step = "clear"
    /\ surfaces' = ClearFrameBuffer(surfaces)
    /\ state' = "Cleared"
    /\ events' = Append(events, "clear")
    /\ pc' = pc + 1
    /\ UNCHANGED <<frame, args, statistics, result, grid_cache, queries, drawn,
                   read_src, issued, decal_draws, gbuffer, ctor>>
    /\ UNCHANGED others

\* An inverse of the view matrix that falls back to the default matrix.
InvViewPanics_Never(view) == FALSE

\* let inv_view = camera.inv_view_matrix().unwrap(); with inv_view_matrix
\* being self.view_matrix.try_inverse()
InvViewPanics(view) == TryInverse(view) = "None"

\* The panic of the unwrap: the call is abandoned where it stands.
InvViewPanic ==
    /\ Step = "geometry"
    /\ InvViewPanics(args.matrices.view)
    /\ result' = [kind |-> "Panic", stats |-> ZeroStatistics, at |-> "inv_view"]
    /\ pc' = 0
    /\ events' = Append(events, "panic")
    /\ UNCHANGED <<frame, args, state, statistics, grid_cache, queries, drawn,
                   read_src, issued, decal_draws, gbuffer, ctor, surfaces>>
    /\ UNCHANGED others

\* BundleRenderContext { .. scene_depth: None, .. }: the geometry pass gets
\* no surface of the G-buffer as input.
GeometryInputs(g) == {}

\* What the instances drawn leave in the attachments of the frame buffer.
GeometryWrite(instances) ==
    IF instances = {} THEN surfaces
    ELSE FramebufferDraw(surfaces, gbuffer, gbuffer.framebuffer, Viewport(gbuffer), TRUE,
                         [by |-> "geometry", frame |-> frame, region |-> {},
                          targets |-> {}, inputs |-> GeometryInputs(gbuffer),
                          value |-> [color |-> args.base_color]])

\* A geometry step that notes the error of the render and carries on.
GeometryStep_BestEffort ==
    /\ Step = "geometry"
    /\ ~InvViewPanics(args.matrices.view)
    /\ LET grid_cell == grid_cache[args.camera_cell]
           submitted == Submitted(args.bundles, args.use_occlusion_culling, grid_cell)
       IN /\ read_src' = {}
          /\ events' = Append(events, "geometry")
          /\ state' = "GeometryRendered"
          /\ pc' = pc + 1
          /\ \/ /\ drawn' = submitted
                /\ statistics' = AddStatistics(statistics, GeometryStatistics(submitted))
                /\ UNCHANGED result
             \/ /\ drawn' \in SUBSET submitted
                /\ result' = [kind |-> "Err", stats |-> ZeroStatistics, at |-> "geometry"]
                /\ UNCHANGED statistics
          /\ surfaces' = GeometryWrite(drawn')
    /\ UNCHANGED <<frame, args, grid_cache, queries, issued, decal_draws, gbuffer, ctor>>
    /\ UNCHANGED others

\* grid_cell = grid_cache.cell(camera position); statistics +=
\* bundle_storage.render_to_frame_buffer(.., bundle filter, instance_filter, ..)?
GeometryStep ==
    /\ Step = "geometry"
    /\ ~InvViewPanics(args.matrices.view)
    /\ LET grid_cell == grid_cache[args.camera_cell]
           submitted == Submitted(args.bundles, args.use_occlusion_culling, grid_cell)
           consulted == IF args.use_occlusion_culling /\ grid_cell.recorded
                        THEN {grid_cell.map[o].src :
                                o \in {x \in args.bundles["Deferred"] :
                                         grid_cell.map[x].vis # "Undefined"}}
                        ELSE {}
       IN /\ read_src' = consulted
          /\ events' = Append(events, "geometry")
          /\ \/ /\ drawn' = submitted
                /\ statistics' = AddStatistics(statistics, GeometryStatistics(submitted))
                /\ state' = "GeometryRendered"
                /\ pc' = pc + 1
                /\ UNCHANGED result
             \/ /\ drawn' \in SUBSET submitted
                /\ ReturnErr("geometry")
                /\ UNCHANGED statistics
          /\ surfaces' = GeometryWrite(drawn')
    /\ UNCHANGED <<frame, args, grid_cache, queries, issued, decal_draws, gbuffer, ctor>>
    /\ UNCHANGED others

\* An issue step that notes the error of the visibility test and carries on.
IssueStep_Swallow ==
    /\ Step = "issue"
    /\ state' = "OcclusionIssued"
    /\ pc' = pc + 1
    /\ IF args.use_occlusion_culling
       THEN LET objects == CollectObjects(args.bundles)
            IN /\ events' = Append(events, "issue")
               /\ \/ /\ queries' = TryRunVisibilityTest(objects, args.camera_cell)
                     /\ issued' = objects
                     /\ UNCHANGED result
                  \/ /\ \E part \in SUBSET objects :
                          /\ queries' = TryRunVisibilityTest(part, args.camera_cell)
                          /\ issued' = part
                     /\ result' = [kind |-> "Err", stats |-> ZeroStatistics, at |-> "issue"]
       ELSE UNCHANGED <<queries, issued, events, result>>
    /\ UNCHANGED <<frame, args, statistics, grid_cache, drawn, read_src, decal_draws,
                   gbuffer, ctor, surfaces>>
    /\ UNCHANGED others

\* if use_occlusion_culling { objects = ..; try_run_visibility_test(objects, ..)? }
IssueStep ==
    /\ Step = "issue"
    /\ IF args.use_occlusion_culling
       THEN LET objects == CollectObjects(args.bundles)
            IN /\ events' = Append(events, "issue")
               /\ \/ /\ queries' = TryRunVisibilityTest(objects, args.camera_cell)
                     /\ issued' = objects
                     /\ state' = "OcclusionIssued"
                     /\ pc' = pc + 1
                     /\ UNCHANGED result
                  \/ /\ \E part \in SUBSET objects :
                          /\ queries' = TryRunVisibilityTest(part, args.camera_cell)
                          /\ issued' = part
                     /\ ReturnErr("issue")
       ELSE /\ state' = "OcclusionIssued"
            /\ pc' = pc + 1
            /\ UNCHANGED <<queries, issued, events, result>>
    /\ UNCHANGED <<frame, args, statistics, grid_cache, drawn, read_src, decal_draws,
                   gbuffer, ctor, surfaces>>
    /\ UNCHANGED others

\* A decal draw that also samples the diffuse surface it writes.
DecalInputs_ReadsDiffuse(g) == {depth(g), decal_mask_texture(g), diffuse_texture(g)}

\* ResourceBinding::texture(&depth, &shader.scene_depth) and
\* ResourceBinding::texture(&decal_mask, &shader.decal_mask): the surfaces
\* of the G-buffer a decal draw samples.
DecalInputs(g) == {depth(g), decal_mask_texture(g)}

\* try_run_visibility_test(.., &*self.framebuffer, ..): the surface of the
\* frame buffer the occlusion tester reads.
VisibilityTestInputs(g) == {depth(g)}

\* What the draw of a decal leaves in the attachments of its frame buffer.
DecalWrite(decal) ==
    LET node == args.scene[decal]
        params == DecalDrawParameters
    IN FramebufferDraw(surfaces, gbuffer, DecalTarget(gbuffer), Viewport(gbuffer),
                       params.depth_write,
                       [by |-> "decal", frame |-> frame, region |-> {},
                        targets |-> {}, inputs |-> DecalInputs(gbuffer),
                        value |->
                          [decal |-> decal,
                           diffuse_texture |->
                               BoundTexture(node.diffuse_texture, "white_dummy"),
                           normal_texture |->
                               BoundTexture(node.normal_texture, "normal_dummy"),
                           color |-> node.color,
                           alpha |-> node.alpha,
                           blend |-> params.blend,
                           depth_write |-> params.depth_write,
                           depth_test |-> params.depth_test,
                           inv_view_proj |->
                               UnwrapOrDefault(TryInverse(
                                   Product(args.matrices.projection, args.matrices.view))),
                           inv_world |->
                               UnwrapOrDefault(TryInverse(args.matrices.decal_transform))]])

\* A decal loop that notes the error of a decal and goes on to the next one.
DecalDraw_CarryOn ==
    /\ Step = "decals"
    /\ Len(decal_draws) < Len(args.decals)
    /\ LET decal == args.decals[Len(decal_draws) + 1]
       IN /\ events' = Append(events, "decal")
          /\ decal_draws' = Append(decal_draws, decal)
          /\ \/ /\ statistics' = DecalStatistics(statistics, CubeDrawStatistics)
                /\ surfaces' = DecalWrite(decal)
                /\ UNCHANGED <<pc, state, result>>
             \/ /\ \E at \in {"uniform", "draw"} :
                      result' = [kind |-> "Err", stats |-> ZeroStatistics, at |-> at]
                /\ UNCHANGED <<pc, state, statistics, surfaces>>
    /\ UNCHANGED <<frame, args, grid_cache, queries, drawn, read_src, issued,
                   gbuffer, ctor>>
    /\ UNCHANGED others

\* One iteration of: for decal in graph.linear_iter().filter_map(cast::<Decal>)
\*   { statistics += decal_framebuffer.draw(.., uniform_buffer_cache.write(..)?, ..)? }
\* The write of the uniform buffer or the draw may fail.
DecalDraw ==
    /\ Step = "decals"
    /\ Len(decal_draws) < Len(args.decals)
    /\ LET decal == args.decals[Len(decal_draws) + 1]
       IN /\ events' = Append(events, "decal")
          /\ \/ /\ decal_draws' = Append(decal_draws, decal)
                /\ statistics' = DecalStatistics(statistics, CubeDrawStatistics)
                /\ surfaces' = DecalWrite(decal)
                /\ UNCHANGED <<pc, state, result>>
             \/ /\ \E at \in {"uniform", "draw"} : ReturnErr(at)
                /\ UNCHANGED <<decal_draws, statistics, surfaces>>
    /\ UNCHANGED <<frame, args, grid_cache, queries, drawn, read_src, issued,
                   gbuffer, ctor>>
    /\ UNCHANGED others

\* The decal loop ends when the iterator is exhausted.
DecalsEnd ==
    /\ Step = "decals"
    /\ Len(decal_draws) = Len(args.decals)
    /\ state' = "DecalsComposited"
    /\ events' = Append(events, "composited")
    /\ pc' = pc + 1
    /\ UNCHANGED <<frame, args, statistics, result, grid_cache, queries, drawn,
                   read_src, issued, decal_draws, gbuffer, ctor, surfaces>>
    /\ UNCHANGED others

\* Ok(statistics)
Return ==
    /\ Step = "ret"
    /\ result' = [kind |-> "Ok", stats |-> statistics, at |-> "none"]
    /\ state' = "Done"
    /\ pc' = 0
    /\ UNCHANGED <<frame, args, statistics, grid_cache, queries, drawn,
                   read_src, issued, decal_draws, events, gbuffer, ctor, surfaces>>
    /\ UNCHANGED others

\* The backend resolves a query in flight, at any time, with either outcome.
Resolve(o) ==
    /\ queries[o].status = "pending"
    /\ \E r \in {"Visible", "Invisible"} :
          queries' = [queries EXCEPT ![o].status = "resolved", ![o].result = r]
    /\ UNCHANGED <<frame, args, pc, state, statistics, result, grid_cache,
                   drawn, read_src, issued, decal_draws, events, gbuffer, ctor,
                   surfaces>>
    /\ UNCHANGED others

FillStep ==
    \/ PollStep
    \/ ClearStep
    \/ GeometryStep
    \/ IssueStep
    \/ DecalDraw
    \/ DecalsEnd
    \/ Return

Next ==
    \/ StartFill
    \/ FillStep
    \/ \E o \in Objects : Resolve(o)

Spec == Init /\ [][Next]_vars

\* The thread that called fill keeps running; the backend owes nothing.
LiveSpec == Spec /\ WF_vars(FillStep)

\* Frames without occlusion culling of scenes with several decals.
BlendNext ==
    \/ StartBlendFill
    \/ FillStep

BlendSpec == BlendInit /\ [][BlendNext]_vars

\* Frames with any view, projection and decal matrices.
MatrixNext ==
    \/ StartMatrixFill
    \/ FillStep
    \/ InvViewPanic
    \/ \E o \in Objects : Resolve(o)

MatrixSpec == Init /\ [][MatrixNext]_vars

\* GBuffer::new with any size, and the frames of the G-buffer it returns.
NewNext ==
    \/ \E width \in Sizes, height \in Sizes : NewCall(width, height)
    \/ NewAlloc
    \/ NewReturn
    \/ StartPlainFill
    \/ FillStep

NewSpec == NewInit /\ [][NewNext]_vars

\* No G-buffer has been created and no frame is rendered.
GBufferIdle ==
    /\ NoFill(PlainScene)
    /\ gbuffer = NoGBuffer
    /\ ctor = NoCtor

\* A delay line of some length, fed sample after sample; no frame is rendered.
DelayInit ==
    /\ GBufferIdle
    /\ NoCurveEditor
    /\ NoCameraBuilder
    /\ NoSky
    /\ NoLut
    /\ \E len \in 1..MaxLen : delay_line = DelayLineNew(len)
    /\ fed = <<>>
    /\ returned = <<>>

\* One call of DelayLine::feed (lines 70-78); its return value is self.last.
Feed(sample) ==
    /\ Len(fed) < MaxFeeds
    /\ delay_line' = DelayLineFeed(delay_line, sample)
    /\ fed' = Append(fed, sample)
    /\ returned' = Append(returned, DelayLineLast(delay_line'))
    /\ UNCHANGED not_delay

DelayNext == \E sample \in Samples : Feed(sample)

DelaySpec == DelayInit /\ [][DelayNext]_vars


\* A camera builder fresh from CameraBuilder::new.
BuilderInit ==
    /\ GBufferIdle
    /\ NoCurveEditor
    /\ NoDelay
    /\ NoSky
    /\ NoLut
    /\ NoCameraBuilder

\* One call of a builder method: the record of it, and the rest at rest.
Called(method, value) ==
    /\ ~camera.built
    /\ Len(calls) < MaxCalls
    /\ calls' = Append(calls, [method |-> method, value |-> value])
    /\ UNCHANGED <<camera, not_builder>>

\* CameraBuilder::with_fov (lines 828-831)
WithFov ==
    \E fov \in Floats :
        /\ builder' = [builder EXCEPT !.fov = fov]
        /\ Called("with_fov", Perspective(fov, 0, 0))

\* CameraBuilder::with_z_near (lines 834-837)
WithZNear ==
    \E v \in Floats :
        /\ builder' = [builder EXCEPT !.z_near = v]
        /\ Called("with_z_near", Perspective(0, v, 0))

\* CameraBuilder::with_z_far (lines 840-843)
WithZFar ==
    \E v \in Floats :
        /\ builder' = [builder EXCEPT !.z_far = v]
        /\ Called("with_z_far", Perspective(0, 0, v))

\* CameraBuilder::with_projection (lines 889-892)
WithProjection ==
    \E projection \in Projections :
        /\ builder' = [builder EXCEPT !.projection = projection]
        /\ Called("with_projection", projection)

\* CameraBuilder::build_camera (lines 894-912); it consumes the builder.
BuildCamera ==
    /\ ~camera.built
    /\ camera' = [built |-> TRUE, projection |-> BuildProjection(builder)]
    /\ UNCHANGED <<builder, calls, not_builder>>

BuilderNext == WithFov \/ WithZNear \/ WithZFar \/ WithProjection \/ BuildCamera

BuilderSpec == BuilderInit /\ [][BuilderNext]_vars

\* A sky box with some faces, and with the cubemap of an earlier call or
\* none.
SkyInit ==
    /\ GBufferIdle
    /\ NoCurveEditor
    /\ NoDelay
    /\ NoCameraBuilder
    /\ NoLut
    /\ \E faces \in FaceSets, cubemap \in {NoCubemap, EmptySkyBox.cubemap} :
          sky_box = [faces |-> faces, cubemap |-> cubemap]
    /\ sky_result = NoCall

\* A call of SkyBox::validate (lines 1089-1140).
Validate ==
    /\ sky_result.call = "none"
    /\ sky_result' = [call |-> "validate", value |-> validate(sky_box),
                      before |-> sky_box.cubemap]
    /\ UNCHANGED <<sky_box, not_sky>>

\* A call of SkyBox::create_cubemap (lines 1147-1193).
CreateCubemap ==
    /\ sky_result.call = "none"
    /\ \E from_bytes_some \in
             FromBytesOutcomes(6 * KindFace(sky_box.faces).width
                                 * KindFace(sky_box.faces).height,
                               KindFace(sky_box.faces).pixel_kind,
                               DataBytes(CubemapData(sky_box.faces,
                                             KindFace(sky_box.faces).bytes))) :
          LET done == create_cubemap(sky_box, from_bytes_some)
          IN  /\ sky_box' = done.sky_box
              /\ sky_result' = [call |-> "create_cubemap", value |-> done.value,
                                before |-> sky_box.cubemap]
    /\ UNCHANGED not_sky

SkyNext == Validate \/ CreateCubemap

SkySpec == SkyInit /\ [][SkyNext]_vars

\* A texture to make a color grading table of.
LutInit ==
    /\ GBufferIdle
    /\ NoCurveEditor
    /\ NoDelay
    /\ NoCameraBuilder
    /\ NoSky
    /\ unwrapped_lut \in LutTextures
    /\ lut_result = NoLutResult

\* The call of ColorGradingLut::new (lines 693-773).
NewLut ==
    /\ lut_result.kind = "none"
    /\ \E from_bytes_some \in
             FromBytesOutcomes(LutSide * LutSide * LutSide, "RGB8", LutBytesLen) :
          lut_result' = ColorGradingLutNew(unwrapped_lut, from_bytes_some)
    /\ UNCHANGED <<unwrapped_lut, not_lut>>

LutNext == NewLut

LutSpec == LutInit /\ [][LutNext]_vars

\* ------------------------------------------------ the curve editor window
CurveInit ==
    /\ GBufferIdle
    /\ NoDelay
    /\ NoCameraBuilder
    /\ NoSky
    /\ NoLut
    /\ NoCurveEditor

\* CurveEditorPlugin::on_ui_message (lines 591-599) with a window: the
\* window handles the message, and the plugin keeps what it returns.
OnUiMessage(m) ==
    /\ curve_editor_window.some
    /\ ui_message.returned # "Panic"
    /\ LET h == handle_ui_message(curve_editor_window.window, files, m)
       IN /\ Len(h.window.command_stack.commands) <= MaxCommands
          /\ curve_editor_window' =
                 [some |-> h.returned = "Some", window |-> h.window]
          /\ files' = h.files
          /\ ui_message' =
                 [message |-> m, sent |-> h.sent, returned |-> h.returned]
    /\ UNCHANGED not_curve

\* The click of the menu item of the plugin (lines 569-576, 592-596): a
\* window is made unless there is one, and opened.
OpenCurveEditor ==
    /\ ui_message.returned # "Panic"
    /\ curve_editor_window' =
           IF curve_editor_window.some THEN curve_editor_window
           ELSE [some |-> TRUE, window |-> CurveEditorWindowNew]
    /\ ui_message' =
           [message |-> UiMessage("MenuItemMessage::Click", "open_curve_editor",
                                  "FromWidget", "0", DefaultCurve, DefaultPath,
                                  "", TRUE),
            sent |-> {"window.open"}, returned |-> "Some"]
    /\ UNCHANGED <<files, not_curve>>

ButtonClick == \E m \in ButtonMessages : OnUiMessage(m)

CurveSync == \E m \in SyncMessages : OnUiMessage(m)

MenuItemClick == \E m \in MenuItemMessages : OnUiMessage(m)

FileSelectorCommit == \E m \in FileSelectorMessages : OnUiMessage(m)

MessageBoxClose == \E m \in MessageBoxMessages : OnUiMessage(m)

OtherMessage == \E m \in OtherMessages : OnUiMessage(m)

CurveNext ==
    \/ OpenCurveEditor
    \/ ButtonClick
    \/ CurveSync
    \/ MenuItemClick
    \/ FileSelectorCommit
    \/ MessageBoxClose
    \/ OtherMessage

CurveSpec == CurveInit /\ [][CurveNext]_vars

\* ------------------------------------------------------------ properties
GridCell == grid_cache[args.camera_cell]

Deferred == args.bundles["Deferred"]

Happened(e) == e \in Range(events)

\* The geometry render of the current call has run and returned Ok.
GeometryOk == Happened("geometry") /\ result.at # "geometry"

\* The visibility test of the current call has run and returned Ok.
IssueOk == Happened("issue") /\ result.at # "issue"

FillChain ==
    {<<"Idle", "Cleared">>, <<"Cleared", "GeometryRendered">>,
     <<"GeometryRendered", "OcclusionIssued">>,
     <<"OcclusionIssued", "DecalsComposited">>,
     <<"DecalsComposited", "Done">>, <<"Done", "Idle">>}

Before(a, b) ==
    \A i, j \in DOMAIN events : events[i] = a /\ events[j] = b => i < j

\* C2: with occlusion culling enabled, within one frame the poll of the
\* earlier queries comes before the geometry render, the issue of the new
\* queries after it, and the issue before the first decal draw; none of the
\* later ones happens without the earlier ones.
C2_ConsumeRenderIssue ==
    args.use_occlusion_culling =>
        /\ Before("poll", "geometry")
        /\ Before("geometry", "issue")
        /\ Before("issue", "decal")
        /\ Happened("geometry") => Happened("poll")
        /\ Happened("issue") => Happened("geometry")
        /\ Happened("decal") \/ Happened("composited") => Happened("issue")

C2_Witness ==
    /\ args.use_occlusion_culling
    /\ Happened("poll")
    /\ Happened("issue")
    /\ Happened("decal")
    /\ drawn # {}
    /\ issued # {}

\* C3 as stated: whatever the filter of frame N reads was produced by the
\* queries issued in frame N-1.
C3_ReadsPreviousFrameOnly == read_src \subseteq {frame - 1}

\* C3 amended: whatever the filter of frame N reads was produced by queries
\* issued in a frame before N (N-1 or earlier); nothing issued in frame N is
\* visible to the filter of frame N.
C3_ReadsEarlierFrames == \A f \in read_src : 1 <= f /\ f < frame

C3_Witness ==
    /\ read_src # {}
    /\ read_src # {frame - 1}
    /\ \E o \in Objects : queries[o].status = "resolved" /\ queries[o].frame = frame

\* C4 as stated: the lag is exactly one cycle, so an object that the queries
\* issued in frame N-1 found invisible from the camera's cell is culled by the
\* geometry pass of frame N.
C4_LagExactlyOne ==
    \A o \in Deferred :
        /\ state = "GeometryRendered"
        /\ args.use_occlusion_culling
        /\ queries[o].status = "resolved"
        /\ queries[o].result = "Invisible"
        /\ queries[o].frame = frame - 1
        /\ queries[o].cell = args.camera_cell
        => o \notin drawn

\* C4 amended: the geometry pass of frame N culls an object exactly when a
\* result of an earlier cycle, consumed by a poll, marks it invisible; a
\* result of the queries issued in frame N, or one that resolved after the
\* poll of frame N, has no effect on frame N: the lag is at least one cycle.
C4_LagAtLeastOne ==
    GeometryOk /\ args.use_occlusion_culling =>
        \A o \in Deferred :
            o \in drawn <=>
                ~(/\ GridCell.recorded
                  /\ GridCell.map[o].vis = "Invisible"
                  /\ GridCell.map[o].src < frame)

C4_Witness ==
    /\ GeometryOk
    /\ args.use_occlusion_culling
    /\ \E o \in drawn :
          /\ queries[o].status = "resolved"
          /\ queries[o].result = "Invisible"
          /\ queries[o].frame = frame
          /\ queries[o].cell = args.camera_cell
          /\ GridCell.map[o].vis = "Visible"

\* C5: an instance of a deferred bundle is drawn exactly when occlusion
\* culling is disabled, or the camera's cell has no recorded visibility, or
\* the cell's map says the object is visible; otherwise it is not drawn.
C5_FilterDecides ==
    GeometryOk =>
        \A o \in Deferred :
            o \in drawn <=>
                \/ ~args.use_occlusion_culling
                \/ ~GridCell.recorded
                \/ GridCell.map[o].vis \in {"Visible", "Undefined"}

C5_Witness ==
    /\ GeometryOk
    /\ args.use_occlusion_culling
    /\ GridCell.recorded
    /\ \E o \in Deferred : o \notin drawn
    /\ \E o \in Deferred : o \in drawn

\* C6: an object without a recorded visibility entry (its cell was never
\* queried, or the cell holds no entry for it) passes the filter, so every
\* such object of a deferred bundle reaches the geometry pass.
C6_FailOpen ==
    GeometryOk =>
        \A o \in Deferred :
            ~GridCell.recorded \/ GridCell.map[o].vis = "Undefined" => o \in drawn

C6_Witness ==
    /\ GeometryOk
    /\ args.use_occlusion_culling
    /\ GridCell.recorded
    /\ \E o \in drawn : GridCell.map[o].vis = "Undefined"
    /\ \E o \in Deferred : o \notin drawn

C10_IssuedAreDrawn == IssueOk => issued = drawn

\* C10 amended: the objects handed to the visibility test are all objects
\* with an instance in any bundle of the storage; the drawn objects are among
\* them.
C10_IssuedAreAllBundled ==
    IssueOk =>
        /\ issued = args.bundles["Deferred"] \cup args.bundles["Forward"]
        /\ drawn \subseteq issued

C10_Witness ==
    /\ IssueOk
    /\ drawn # {}
    /\ issued \ drawn # {}

\* C11: in a frame with occlusion culling disabled the tester is not used:
\* nothing is polled, nothing is issued, no query carries the number of the
\* frame, and every instance of a deferred bundle is drawn whatever the
\* cache says about it.
C11_TesterUnusedWhenDisabled ==
    ~args.use_occlusion_culling =>
        /\ ~Happened("poll")
        /\ ~Happened("issue")
        /\ issued = {}
        /\ \A o \in Objects : queries[o].status # "none" => queries[o].frame < frame
        /\ GeometryOk => drawn = Deferred

C11_Witness ==
    /\ ~args.use_occlusion_culling
    /\ state = "Done"
    /\ result.kind = "Ok"
    /\ GridCell.recorded
    /\ \E o \in drawn : GridCell.map[o].vis = "Invisible"
    /\ \E o \in Objects : queries[o].status = "resolved"

\* C20: whatever the occlusion state, only instances of bundles on the
\* Deferred render path are drawn by the geometry pass.
C20_OnlyDeferredDrawn == drawn \subseteq args.bundles["Deferred"]

C20_Witness ==
    /\ GeometryOk
    /\ args.use_occlusion_culling
    /\ GridCell.recorded
    /\ drawn # {}
    /\ \E o \in args.bundles["Forward"] \ drawn : GridCell.map[o].vis = "Visible"

\* ----------------------------------------------- properties of GBuffer::new
\* Position of a request in the order of new.
IndexOf(name) == CHOOSE i \in DOMAIN NewSteps : NewSteps[i] = name

\* All six surfaces of g, and its two fields, have the given size.
SizesMatch(g, width, height) ==
    /\ g.width = width
    /\ g.height = height
    /\ {t.name : t \in Range(g.textures)} = Range(SurfaceNames)
    /\ \A t \in Range(g.textures) : t.width = width /\ t.height = height
    /\ Attachments(g.framebuffer) = Range(SurfaceNames)

\* C18: when the backend grants every request of GBuffer::new for a size
\* with width > 0 and height > 0, new returns a GBuffer; the six surfaces of a
\* GBuffer have exactly the requested width and height, which are also its
\* width and height fields; and nothing changes the GBuffer afterwards.
C18_SizesMatchAndStay ==
    [][ /\ (ctor'.pc = 0 /\ Len(ctor'.made) = Len(NewSteps)) =>
              (gbuffer'.status = "ok" /\ ctor'.result = "Ok")
        /\ gbuffer'.status = "ok" =>
              /\ ctor'.width > 0 /\ ctor'.height > 0
              /\ SizesMatch(gbuffer', ctor'.width, ctor'.height)
        /\ gbuffer.status = "ok" => gbuffer' = gbuffer ]_vars

C18_Witness ==
    /\ gbuffer.status = "ok"
    /\ ctor.width # ctor.height
    /\ SizesMatch(gbuffer, ctor.width, ctor.height)
    /\ frame > 1
    /\ state = "Done"
    /\ drawn # {}
    /\ decal_draws # <<>>

\* C19: when a request of GBuffer::new fails (one of the six surfaces, a
\* frame buffer, the decal shader, the cube or the occlusion tester), new
\* has returned, there is no GBuffer, exactly the requests before the failed
\* one were made, and no frame is ever rendered.
C19_FailFast ==
    ctor.result \notin {"None", "Ok"} =>
        /\ ctor.result \in Range(NewSteps)
        /\ ctor.pc = 0
        /\ gbuffer = NoGBuffer
        /\ ctor.made = SubSeq(AllMade(ctor.width, ctor.height), 1,
                              IndexOf(ctor.result) - 1)
        /\ frame = 0

C19_Witness ==
    /\ ctor.result = "decal_shader"
    /\ Len(ctor.made) = 8
    /\ gbuffer.status = "none"

\* ---------------------------------------- properties of the frame content
\* Value a texel of the surface holds after the clear of a frame: transparent
\* black, or depth 1.0 and stencil 0.
ClearValue(n) == IF n = "depth_stencil" THEN <<1, 0>> ELSE <<0, 0, 0, 0>>

\* C12: in every frame the clear precedes the geometry draw; from the clear
\* on, every texel of every attachment of the primary frame buffer holds the
\* clear value (colour (0,0,0,0), depth 1.0, stencil 0) below the writes of
\* this frame and nothing written by an earlier frame, and before the
\* geometry draw it holds the clear value alone; clearing twice gives the
\* content that clearing once gives.
C12_ClearedBeforeGeometry ==
    /\ Happened("geometry") => Happened("clear")
    /\ Happened("clear") =>
          \A n \in Range(SurfaceNames) :
             /\ n \in Attachments(gbuffer.framebuffer)
             /\ \A p \in TextureRect(gbuffer, n) :
                   LET at == At(surfaces[n], p)
                   IN /\ at # <<>>
                      /\ at[1].by = "clear"
                      /\ at[1].value = ClearValue(n)
                      /\ \A i \in DOMAIN at : at[i].frame = frame
                      /\ ~Happened("geometry") => Len(at) = 1
    /\ LET once == ClearFrameBuffer(surfaces)
       IN ClearFrameBuffer(once) = once

C12_Witness ==
    /\ frame >= 2
    /\ Step = "geometry"
    /\ Happened("clear")
    /\ \A n \in Range(SurfaceNames) : Len(surfaces[n]) = 1

\* Number of the writes of the decal pass in a content.
DecalLayers(layers) == Len(SelectSeq(layers, LAMBDA l : l.by = "decal"))

\* C14: every draw of a decal goes to the secondary frame buffer, which has
\* the diffuse and the normal surface and no depth attachment, with depth
\* write and depth test off; it writes the diffuse and the normal surface
\* and nothing else, so that the depth/stencil, ambient, material and decal
\* mask surfaces hold, during and after the decal pass, what the clear and
\* the geometry pass of the frame left in them.
C14_DecalsWriteDiffuseAndNormalOnly ==
    /\ gbuffer.decal_framebuffer.depth = "none"
    /\ Range(gbuffer.decal_framebuffer.colors) = {"diffuse_texture", "normal_texture"}
    /\ \A n \in Range(SurfaceNames) :
          \A i \in DOMAIN surfaces[n] :
             surfaces[n][i].by = "decal" =>
                /\ n \in {"diffuse_texture", "normal_texture"}
                /\ ~surfaces[n][i].value.depth_write
                /\ surfaces[n][i].value.depth_test = "None"
    /\ Happened("clear") =>
          /\ \A n \in {"diffuse_texture", "normal_texture"} :
                DecalLayers(surfaces[n]) = Len(decal_draws)
          /\ \A n \in Range(SurfaceNames) \ {"diffuse_texture", "normal_texture"} :
                /\ Len(surfaces[n]) = IF drawn = {} THEN 1 ELSE 2
                /\ surfaces[n][1].by = "clear"
                /\ drawn # {} => surfaces[n][2].by = "geometry"

C14_Witness ==
    /\ state = "DecalsComposited"
    /\ decal_draws # <<>>
    /\ drawn # {}
    /\ Len(surfaces["diffuse_texture"]) = 3
    /\ Len(surfaces["depth_stencil"]) = 2

\* Colour the geometry pass left: the one of the instances drawn, else the
\* clear colour.
BaseColor == IF drawn = {} THEN 0 ELSE args.base_color

\* Over-compositing of the decals of a list, first to last, on a base colour:
\* each takes its alpha of its own colour and the rest of what is below.
RECURSIVE Over(_, _)
Over(list, base) ==
    IF list = <<>> THEN base
    ELSE LET top == args.scene[list[Len(list)]]
             below == Over(SubSeq(list, 1, Len(list) - 1), base)
         IN (top.color * top.alpha + below * (2 - top.alpha)) \div 2

\* The decals whose draws a content holds, in the order of the draws.
RECURSIVE DecalsOf(_)
DecalsOf(layers) ==
    IF layers = <<>> THEN <<>>
    ELSE LET l == layers[Len(layers)]
             before == DecalsOf(SubSeq(layers, 1, Len(layers) - 1))
         IN IF l.by = "decal" THEN Append(before, l.value.decal) ELSE before

\* C13: the decals are drawn in the order of the scene graph, one draw per
\* decal node, each blended with source alpha / one minus source alpha, so
\* that every texel of the diffuse surface holds the over-compositing, in
\* that order, of the decals drawn on what the geometry pass left; when the
\* decal pass is through, every decal of the graph was drawn exactly once.
C13_DecalsCompositedInOrder ==
    Happened("clear") =>
        /\ decal_draws = SubSeq(args.decals, 1, Len(decal_draws))
        /\ DecalsOf(surfaces["diffuse_texture"]) = decal_draws
        /\ DecalsOf(surfaces["normal_texture"]) = decal_draws
        /\ \A i \in DOMAIN surfaces["diffuse_texture"] :
              surfaces["diffuse_texture"][i].by = "decal" =>
                 surfaces["diffuse_texture"][i].value.blend =
                     <<"SrcAlpha", "OneMinusSrcAlpha">>
        /\ \A p \in TextureRect(gbuffer, "diffuse_texture") :
              Resolved(At(surfaces["diffuse_texture"], p)) = Over(decal_draws, BaseColor)
        /\ state = "DecalsComposited" => decal_draws = args.decals

\* Decal A of colour 4 and then decal B of colour 0, both of alpha 0.5, on
\* the base colour 8: the texels hold ((8*0.5 + 4*0.5)*0.5 + 0*0.5) = 3,
\* which neither the other order nor the average of the three gives.
C13_Witness ==
    /\ state = "DecalsComposited"
    /\ args.decals = <<1, 2>>
    /\ args.scene[1].alpha = 1
    /\ args.scene[2].alpha = 1
    /\ drawn # {}
    /\ \A p \in TextureRect(gbuffer, "diffuse_texture") :
          Resolved(At(surfaces["diffuse_texture"], p)) = 3
    /\ Over(<<2, 1>>, BaseColor) # 3
    /\ (BaseColor + args.scene[1].color + args.scene[2].color) \div 3 # 3

\* The texture a draw binds for a decal texture in the given state.
Bound(texture, fallback) == IF texture = "loaded" THEN "texture" ELSE fallback

\* C15: a decal is drawn whatever the state of its textures: the decals
\* drawn are the decals of the graph in order, none left out; the draw binds
\* the white fallback for a diffuse texture that is not assigned or not in
\* the texture cache and the flat-normal fallback for such a normal texture;
\* a frame whose decal pass is through, or that returned Ok, drew them all.
C15_FallbackTextures ==
    Happened("clear") =>
        /\ \A i \in DOMAIN decal_draws : decal_draws[i] = args.decals[i]
        /\ \A n \in {"diffuse_texture", "normal_texture"} :
              \A i \in DOMAIN surfaces[n] :
                 surfaces[n][i].by = "decal" =>
                    LET v == surfaces[n][i].value
                        node == args.scene[v.decal]
                    IN /\ v.diffuse_texture = Bound(node.diffuse_texture, "white_dummy")
                       /\ v.normal_texture = Bound(node.normal_texture, "normal_dummy")
        /\ (state = "DecalsComposited" \/ result.kind = "Ok") =>
              DecalsOf(surfaces["diffuse_texture"]) = args.decals

C15_Witness ==
    /\ state = "Done"
    /\ result.kind = "Ok"
    /\ args.decals = <<2, 1>>
    /\ args.scene[1].diffuse_texture = "none"
    /\ args.scene[1].normal_texture = "unavailable"
    /\ args.scene[2].diffuse_texture = "unavailable"
    /\ args.scene[2].normal_texture = "none"
    /\ surfaces["diffuse_texture"][Len(surfaces["diffuse_texture"])].value.diffuse_texture
           = "white_dummy"
    /\ surfaces["normal_texture"][Len(surfaces["normal_texture"])].value.normal_texture
           = "normal_dummy"

\* ------------------------------------------- properties of the statistics
\* Statistics of n draws of the unit cube.
DecalPassStatistics(n) ==
    [draw_calls |-> n, triangles_rendered |-> n * UnitCubeTriangles]

\* Statistics of a geometry pass that drew n instances in as many draw calls.
Batch(n) == [draw_calls |-> n, triangles_rendered |-> 0]

\* C16: the statistics a successful fill returns are, counter by counter,
\* the statistics of its geometry pass plus those of each of its decal draws
\* and nothing else, whatever the frames before returned; during the call the
\* sum holds what the passes done so far contributed; batches of 3 and of 5
\* instances add up to 8.
C16_StatisticsAreSums ==
    /\ result.kind = "Ok" =>
          /\ result.stats.draw_calls = Cardinality(drawn) + Len(decal_draws)
          /\ result.stats = AddStatistics(GeometryStatistics(drawn),
                                          DecalPassStatistics(Len(decal_draws)))
    /\ pc # 0 =>
          statistics = AddStatistics(IF GeometryOk THEN GeometryStatistics(drawn)
                                     ELSE ZeroStatistics,
                                     DecalPassStatistics(Len(decal_draws)))
    /\ AddStatistics(Batch(3), Batch(5)).draw_calls = 8

C16_Witness ==
    /\ frame >= 2
    /\ result.kind = "Ok"
    /\ Cardinality(drawn) = 2
    /\ decal_draws # <<>>
    /\ result.stats.draw_calls = 3

\* C17 as stated: a frame that renders zero instances returns zero draw
\* calls and zero triangles.
C17_ZeroInstancesZeroStatistics ==
    (result.kind = "Ok" /\ drawn = {}) => result.stats = ZeroStatistics

\* C17 amended: a frame that renders zero instances returns the statistics
\* of its decal draws alone, one draw call and the triangles of the unit cube
\* for each decal; they are zero draw calls and zero triangles when the frame
\* draws no decal either.
C17_ZeroInstancesDecalStatistics ==
    (result.kind = "Ok" /\ drawn = {}) =>
        /\ result.stats = DecalPassStatistics(Len(decal_draws))
        /\ decal_draws = <<>> => result.stats = ZeroStatistics

C17_Witness ==
    /\ frame >= 2
    /\ result.kind = "Ok"
    /\ Deferred # {}
    /\ drawn = {}
    /\ decal_draws = <<>>
    /\ result.stats = ZeroStatistics

\* ------------------------------------------ properties of the attachments
\* C26: the primary frame buffer of a GBuffer has the depth-stencil surface
\* as depth attachment and exactly five colour attachments: diffuse (0),
\* normal (1), ambient (2), material (3), decal mask (4); the decal frame
\* buffer has no depth attachment and exactly two colour attachments, the
\* same textures as attachments 0 and 1 of the primary one; every accessor
\* returns the texture that new created for that purpose, which is the
\* matching attachment of the primary frame buffer.
C26_AttachmentLayout ==
    gbuffer.status = "ok" =>
        /\ gbuffer.framebuffer.depth = "depth_stencil"
        /\ gbuffer.framebuffer.colors =
              <<"diffuse_texture", "normal_texture", "ambient_texture",
                "material_texture", "decal_mask_texture">>
        /\ gbuffer.decal_framebuffer.depth = "none"
        /\ Len(gbuffer.decal_framebuffer.colors) = 2
        /\ gbuffer.decal_framebuffer.colors[1] = gbuffer.framebuffer.colors[1]
        /\ gbuffer.decal_framebuffer.colors[2] = gbuffer.framebuffer.colors[2]
        /\ depth(gbuffer) = "depth_stencil"
        /\ diffuse_texture(gbuffer) = "diffuse_texture"
        /\ normal_texture(gbuffer) = "normal_texture"
        /\ ambient_texture(gbuffer) = "ambient_texture"
        /\ material_texture(gbuffer) = "material_texture"
        /\ decal_mask_texture(gbuffer) = "decal_mask_texture"
        /\ Texture(gbuffer, depth(gbuffer)).kind = "D24S8"
        /\ Texture(gbuffer, diffuse_texture(gbuffer)).kind = "RGBA8"
        /\ Texture(gbuffer, normal_texture(gbuffer)).kind = "RGBA8"
        /\ Texture(gbuffer, ambient_texture(gbuffer)).kind = "RGBA16F"
        /\ Texture(gbuffer, material_texture(gbuffer)).kind = "RGBA8"
        /\ Texture(gbuffer, decal_mask_texture(gbuffer)).kind = "R8UI"

C26_Witness ==
    /\ gbuffer.status = "ok"
    /\ ctor.result = "Ok"
    /\ decal_mask_texture(gbuffer) = "decal_mask_texture"
    /\ state = "Done"
    /\ decal_draws # <<>>

\* Rank of the pass that wrote a layer, in the order of the passes of fill.
PassRank(l) == CASE l.by = "clear" -> 1 [] l.by = "geometry" -> 2 [] l.by = "decal" -> 3

\* C27: no draw samples a surface it writes: the surfaces of the G-buffer a
\* decal draw binds as inputs are the depth and the decal mask surface, the
\* surfaces it writes are the diffuse and the normal surface, and the two
\* sets are disjoint; the geometry pass binds no surface of the G-buffer as
\* input; the occlusion test reads the depth surface only; and the writes
\* to a surface come one pass after the other: clear, geometry, decals.
C27_NoSurfaceReadAndWritten ==
    /\ \A n \in Range(SurfaceNames) :
          \A i \in DOMAIN surfaces[n] :
             LET l == surfaces[n][i]
             IN /\ l.by = "decal" =>
                      /\ l.inputs = {"depth_stencil", "decal_mask_texture"}
                      /\ l.targets = {"diffuse_texture", "normal_texture"}
                      /\ l.inputs \cap l.targets = {}
                      /\ n \in l.targets
                /\ l.by = "geometry" => l.inputs = {} /\ n \in l.targets
                /\ \A j \in DOMAIN surfaces[n] :
                      (i < j /\ l.frame = surfaces[n][j].frame) =>
                          PassRank(l) <= PassRank(surfaces[n][j])
    /\ gbuffer.status = "ok" => VisibilityTestInputs(gbuffer) = {"depth_stencil"}

C27_Witness ==
    /\ args.use_occlusion_culling
    /\ IssueOk
    /\ issued # {}
    /\ drawn # {}
    /\ decal_draws # <<>>
    /\ Len(surfaces["diffuse_texture"]) = 3
    /\ surfaces["diffuse_texture"][3].inputs = {"depth_stencil", "decal_mask_texture"}

\* -------------------------------------- properties of the visibility test
\* Objects with an instance in a deferred bundle that the filter rejected.
Culled == IF GeometryOk THEN Deferred \ drawn ELSE {}

\* C28: with occlusion culling enabled, a visibility test that returned Ok
\* was handed every object with an instance in any bundle, the objects
\* culled in this frame among them, and each of these objects has a query
\* under way (in flight or resolved and waiting for the next poll).
C28_CulledAreQueriedAgain ==
    (args.use_occlusion_culling /\ IssueOk) =>
        /\ \A p \in RenderPaths : args.bundles[p] \subseteq issued
        /\ Culled \subseteq issued
        /\ \A o \in issued : queries[o].status \in {"pending", "resolved"}

\* An object culled in this frame whose query of this frame says Visible.
C28_Witness ==
    /\ args.use_occlusion_culling
    /\ IssueOk
    /\ \E o \in Culled :
          /\ GridCell.map[o].vis = "Invisible"
          /\ queries[o].frame = frame
          /\ queries[o].status = "resolved"
          /\ queries[o].result = "Visible"

\* ------------------------------------------------ properties of the errors
\* Statement of fill in which a failure of the given kind occurs.
FailedStatement(at) ==
    CASE at = "geometry" -> "geometry"
      [] at = "issue" -> "issue"
      [] at \in {"uniform", "draw"} -> "decal"

\* Number of the iterations of the decal loop that were begun.
DecalIterations == Len(SelectSeq(events, LAMBDA e : e = "decal"))

\* C29: fill returns Err at the first step that fails, which is the geometry
\* render, the visibility test, or the write of the uniform buffer or the
\* draw of a decal: the failing statement is the last one of the call, no
\* query is issued after a failed geometry render, no decal is drawn after
\* a failed render or test, the decals after a failed one are not begun, and
\* the error comes without the statistics accumulated so far.
C29_FirstFailureReturns ==
    result.kind = "Err" =>
        /\ result.at \in {"geometry", "issue", "uniform", "draw"}
        /\ pc = 0
        /\ state = "Done"
        /\ result.stats = ZeroStatistics
        /\ events[Len(events)] = FailedStatement(result.at)
        /\ ~Happened("composited")
        /\ result.at = "geometry" =>
              /\ issued = {}
              /\ ~Happened("issue")
              /\ \A o \in Objects : queries[o].status # "none" => queries[o].frame < frame
        /\ result.at \in {"geometry", "issue"} =>
              decal_draws = <<>> /\ DecalIterations = 0
        /\ result.at \in {"uniform", "draw"} =>
              /\ Len(decal_draws) < Len(args.decals)
              /\ DecalIterations = Len(decal_draws) + 1
              /\ DecalsOf(surfaces["diffuse_texture"]) = decal_draws

C29_Witness ==
    /\ result.kind = "Err"
    /\ result.at = "uniform"
    /\ args.use_occlusion_culling
    /\ issued # {}
    /\ drawn # {}
    /\ statistics # ZeroStatistics
    /\ args.decals # <<>>
    /\ decal_draws = <<>>

\* ---------------------------------------------- properties of the matrices
\* C30: a call of fill whose camera has a singular view matrix panics, and
\* no other call does: the panic comes after the poll of the occlusion
\* results (with occlusion culling) and the clear of the frame buffer and
\* before any geometry is drawn, any query issued and any decal drawn, and
\* nothing is returned; a call whose view matrix is regular ends with Ok or
\* Err whatever the view-projection matrix and the decal transforms are, and
\* its decal draws get the default matrix where there is no inverse.
C30_SingularViewPanics ==
    /\ result.kind = "Panic" =>
          /\ args.matrices.view = "singular"
          /\ pc = 0
          /\ Happened("clear")
          /\ args.use_occlusion_culling => Happened("poll")
          /\ events[Len(events)] = "panic"
          /\ ~Happened("geometry") /\ ~Happened("issue") /\ ~Happened("decal")
          /\ drawn = {} /\ issued = {} /\ decal_draws = <<>>
          /\ \A n \in Range(SurfaceNames) : Len(surfaces[n]) = 1
          /\ \A o \in Objects : queries[o].status # "none" => queries[o].frame < frame
    /\ (frame > 0 /\ args.matrices.view = "singular") =>
          /\ ~Happened("geometry")
          /\ pc = 0 => result.kind = "Panic"
    /\ args.matrices.view = "regular" => result.kind # "Panic"
    /\ \A i \in DOMAIN surfaces["diffuse_texture"] :
          LET l == surfaces["diffuse_texture"][i]
          IN (l.by = "decal" /\ l.frame = frame) =>
                /\ l.value.inv_view_proj =
                      IF args.matrices.projection = "singular" THEN "default" ELSE "inverse"
                /\ l.value.inv_world =
                      IF args.matrices.decal_transform = "singular" THEN "default"
                      ELSE "inverse"

C30_Witness ==
    /\ result.kind = "Panic"
    /\ frame >= 2
    /\ args.use_occlusion_culling
    /\ Happened("poll")
    /\ GridCell.recorded
    /\ Deferred # {}
    /\ args.decals # <<>>

\* A frame that returned Ok with a singular view-projection matrix and
\* singular decal transforms.
C30_SingularProjectionReturns ==
    /\ result.kind = "Ok"
    /\ args.matrices.projection = "singular"
    /\ args.matrices.decal_transform = "singular"
    /\ drawn # {}
    /\ decal_draws # <<>>

\* ------------------------------------------- properties of the delay line
\* C21: a delay line of length n >= 1 delays its input by exactly n samples:
\* the k-th call of feed returns 0 for k <= n and the sample of the (k-n)-th
\* call for k > n, and last() returns the value the latest feed returned.
C21_DelaysByLen ==
    LET n == DelayLineLen(delay_line)
    IN  /\ Len(returned) = Len(fed)
        /\ \A k \in 1..Len(fed) :
              returned[k] = IF k <= n THEN 0 ELSE fed[k - n]
        /\ Len(fed) > 0 => DelayLineLast(delay_line) = returned[Len(returned)]

\* A delay line of two samples or more that wrapped around and gave back a
\* sample other than silence, later than the call after the one that fed it.
C21_Witness ==
    LET n == DelayLineLen(delay_line)
    IN  /\ n >= 2
        /\ Len(fed) > n + 1
        /\ returned[Len(fed)] # 0
        /\ returned[Len(fed)] # fed[Len(fed) - 1]
        /\ DelayLineLast(delay_line) = fed[Len(fed) - n]

\* --------------------------------------- properties of the camera builder
\* The calls of a builder method, in order.
CallsOf(method) == SelectSeq(calls, LAMBDA c : c.method = method)

\* The argument of the last call of a builder method.
LastPassed(method) == CallsOf(method)[Len(CallsOf(method))].value

\* C22: after build_camera, the projection of the camera has the near plane,
\* the far plane and the field of view that were last passed to with_z_near,
\* with_z_far and with_fov.
C22_BuilderValuesReachCamera ==
    camera.built =>
        /\ CallsOf("with_z_near") # <<>> =>
              z_near(camera.projection) = z_near(LastPassed("with_z_near"))
        /\ CallsOf("with_z_far") # <<>> =>
              z_far(camera.projection) = z_far(LastPassed("with_z_far"))
        /\ CallsOf("with_fov") # <<>> =>
              camera.projection.fov = LastPassed("with_fov").fov

\* What the code does: the camera gets the projection of the builder, which
\* is the default one or the one last passed to with_projection, whatever
\* was passed to with_fov, with_z_near and with_z_far.
C22_CameraGetsBuilderProjection ==
    camera.built =>
        camera.projection =
            IF CallsOf("with_projection") = <<>> THEN DefaultProjection
            ELSE LastPassed("with_projection")

\* A camera built after with_z_near(1.0) alone, whose near plane is 0.025.
C22_Witness ==
    /\ camera.built
    /\ calls = <<[method |-> "with_z_near", value |-> Perspective(0, 1000, 0)]>>
    /\ builder.z_near = 1000
    /\ z_near(camera.projection) = DefaultZNear

\* ---------------------------------------------- properties of the sky box
Face(i) == textures(sky_box.faces, i)

\* The faces that are Some, by their index in textures().
Provided == {i \in FaceIndices : Face(i).some}

Least(S) == CHOOSE i \in S : \A j \in S : i <= j

\* The provided faces that are loaded, and those of them that are rectangles.
Loaded == {i \in Provided : Face(i).state = "Ok"}

Rectangles == {i \in Loaded : Face(i).kind = "Rectangle"}

\* Face i offends when it is not loaded, or when it is one of the faces S
\* whose size and pixel kind count and it is not square or differs from the
\* first face of S.
Offends(i, S) ==
    \/ Face(i).state # "Ok"
    \/ /\ i \in S
       /\ \/ Face(i).width # Face(i).height
          \/ Face(i).width # Face(Least(S)).width
          \/ Face(i).height # Face(Least(S)).height
          \/ Face(i).pixel_kind # Face(Least(S)).pixel_kind

\* The error of an offending face, the expected values being those of the
\* first face of S.
ErrorOf(i, S) ==
    IF Face(i).state # "Ok" THEN TextureIsNotReady(i)
    ELSE IF Face(i).width # Face(i).height
         THEN NonSquareTexture(i, Face(i).width, Face(i).height)
         ELSE DifferentTexture(TextureInfo(Face(Least(S))), i, Face(i))

\* What validate returns when S are the faces whose size and pixel kind
\* count: Ok without an offending face, and the error of the first one
\* otherwise.
Verdict(S) ==
    LET offending == {i \in Provided : Offends(i, S)}
    IN  IF offending = {} THEN SkyOk ELSE ErrorOf(Least(offending), S)

C24_CreateCubemapRejectsOtherKinds ==
    sky_result.call = "create_cubemap" =>
        LET data == sky_box.cubemap.data
        IN  /\ (\E i \in Provided : Face(i).kind # "Rectangle") =>
                  sky_result.value # SkyOk
            /\ sky_result.value # SkyOk => sky_box.cubemap = sky_result.before
            /\ sky_result.value = SkyOk =>
                  /\ sky_box.cubemap.some
                  /\ Len(data) = Len(FaceNames)
                  /\ \A i, j \in FaceIndices : data[i + 1].bytes = data[j + 1].bytes
                  /\ \A i \in FaceIndices : data[i + 1].of = Face(i)

\* What the code does: create_cubemap fails when validate does, when the
\* first provided face is not a rectangle, or when Texture::from_bytes
\* returns None, and then leaves the cubemap unchanged; otherwise the cubemap
\* has the size and the pixel kind of the first provided face and the data of
\* the six faces in order, a face that was not provided being as many zero
\* bytes as the first provided face has bytes.
C24_CreateCubemapLooksAtFirstFace ==
    sky_result.call = "create_cubemap" =>
        LET data == sky_box.cubemap.data
            first == IF Provided = {} THEN Tex("Ok", "Rectangle", 1, 1, 0, "R8")
                     ELSE Face(Least(Provided))
        IN  /\ (Verdict(Rectangles) # SkyOk \/ first.kind # "Rectangle") =>
                  sky_result.value # SkyOk
            /\ sky_result.value # SkyOk => sky_box.cubemap = sky_result.before
            /\ sky_result.value = SkyOk =>
                  /\ sky_box.cubemap.some
                  /\ sky_box.cubemap.width = first.width
                  /\ sky_box.cubemap.height = first.height
                  /\ sky_box.cubemap.pixel_kind = first.pixel_kind
                  /\ Len(data) = Len(FaceNames)
                  /\ \A i \in FaceIndices :
                        /\ data[i + 1].of = Face(i)
                        /\ data[i + 1].bytes =
                              IF Face(i).some THEN Face(i).bytes ELSE first.bytes

\* create_cubemap has returned Ok and replaced the cubemap although a face
\* after the first provided one is a volume; the volume has as many bytes and
\* the same pixel kind as the first face, a rectangle.
C24_Witness ==
    /\ sky_result.call = "create_cubemap"
    /\ sky_result.value = SkyOk
    /\ sky_box.cubemap # sky_result.before
    /\ \E i \in Provided :
          /\ i > Least(Provided)
          /\ Face(i).kind = "Volume"
          /\ Face(Least(Provided)).kind = "Rectangle"
          /\ Face(i).bytes = Face(Least(Provided)).bytes
          /\ Face(i).pixel_kind = Face(Least(Provided)).pixel_kind
          /\ \A j \in FaceIndices :
                sky_box.cubemap.data[j + 1].bytes = Face(i).bytes

\* ------------------------------------ properties of the color grading table
\* The number of bytes a table needs of a texture of a pixel kind.
Required(pixel_kind) == IF pixel_kind = "RGBA8" THEN RGBA8_SIZE ELSE RGB8_SIZE

\* The table that new returns: 16 x 16 x 16 pixels of RGB8 in 16*16*16*3
\* bytes, and the input kept as unwrapped_lut.
IsTable(value) ==
    /\ value.unwrapped_lut = "Some"
    /\ value.lut.some
    /\ value.lut.width = 16 /\ value.lut.height = 16 /\ value.lut.depth = 16
    /\ value.lut.pixel_kind = "RGB8"
    /\ value.lut.len = 16 * 16 * 16 * 3

\* What new returns when `short` says of a number of bytes and of the number
\* required that the texture cannot make a table.
LutVerdict(short(_, _)) ==
    LET t == unwrapped_lut
        r == lut_result
    IN  IF t.state # "Ok" THEN r.kind = "Err" /\ r.error = "Texture"
        ELSE IF t.pixel_kind \notin {"RGB8", "RGBA8"}
        THEN /\ r.kind = "Err"
             /\ r.error = "InvalidPixelFormat"
             /\ r.pixel_kind = t.pixel_kind
        ELSE IF short(t.len, Required(t.pixel_kind))
        THEN /\ r.kind = "Err"
             /\ r.error = "NotEnoughData"
             /\ r.required = Required(t.pixel_kind)
             /\ r.current = t.len
        ELSE r.kind = "Ok" /\ IsTable(r.value)

Window == curve_editor_window.window

\* The message handled last, and whether it is the given one.
IsMessage(m, data, destination) ==
    m.data = data /\ m.destination = destination

\* A message box was closed with the answer that discards the changes.
ConfirmsDiscard(m) ==
    \/ IsMessage(m, "MessageBoxMessage::Close", "cancel_message_box")
       /\ m.answer = "Yes"
    \/ IsMessage(m, "MessageBoxMessage::Close", "save_changes_message_box")
       /\ m.answer = "No"

\* A message on which the window saves the curve and closes.
SavesAndCloses(m) ==
    \/ IsMessage(m, "ButtonMessage::Click", "ok")
    \/ IsMessage(m, "MessageBoxMessage::Close", "save_changes_message_box")
       /\ m.answer = "Yes"

\* A step in which the window handles a message.
HandlesMessage ==
    /\ curve_editor_window.some
    /\ ui_message'.message.destination # "open_curve_editor"

AcceptedEdit(w, m) ==
    /\ m.data = "CurveEditorMessage::Sync"
    /\ FromCurveEditor(m)
    /\ w.curve_resource.some

\* The message makes the window call set_curve: File/New, or a Load whose
\* request succeeds.
SetsCurve(m) ==
    \/ IsMessage(m, "MenuItemMessage::Click", "new")
    \/ IsMessage(m, "FileSelectorMessage::Commit", "load_file_selector")
       /\ m.io_ok

\* C32: the modified flag of the window becomes true only on a Sync message
\* of the curve editor widget with direction FromWidget and without the sync
\* flag while a curve resource is set, and every such message sets it; it
\* becomes false only in set_curve (File/New, a successful Load), and every
\* set_curve clears it; every other message (Save, the commit of the save
\* selector, Undo, Redo, a failed Load, the buttons, the message boxes)
\* leaves it as it was, so that a saved curve is still treated as modified.
C32_ModifiedSetByEditClearedBySetCurve ==
    [][HandlesMessage =>
         LET w == curve_editor_window.window
             after == curve_editor_window'.window
             m == ui_message'.message
         IN after.modified =
                IF AcceptedEdit(w, m) THEN TRUE
                ELSE IF SetsCurve(m) THEN FALSE
                ELSE w.modified
    ]_vars

\* A modified curve was saved with File/Save and is still modified.
C32_Witness ==
    /\ curve_editor_window.some
    /\ IsMessage(ui_message.message, "MenuItemMessage::Click", "save")
    /\ Window.modified
    /\ Window.path # DefaultPath
    /\ files[Window.path] = CurveFile(Window.curve_resource.curve)
    /\ Window.curve_resource.curve # Window.backup

\* The curve that set_curve is called with on the message.
CurveSet(m) ==
    IF IsMessage(m, "MenuItemMessage::Click", "new") THEN DefaultCurve
    ELSE m.curve

\* C33: when a message box is closed with the answer that discards the
\* changes (Yes in the cancel box, No in the save-changes box) and a curve
\* resource is set, the curve of the resource is afterwards the backup; the
\* backup is assigned only by set_curve (File/New, a successful Load), to the
\* curve of the resource set, so that no edit, undo, redo or save in between
\* changes it, and the discard leaves it as it is.
C33_DiscardRestoresBackup ==
    [][HandlesMessage =>
         LET w == curve_editor_window.window
             after == curve_editor_window'.window
             m == ui_message'.message
         IN /\ (ConfirmsDiscard(m) /\ w.curve_resource.some) =>
                   /\ after.curve_resource.curve = w.backup
                   /\ ui_message'.returned = "None"
            /\ after.backup = IF SetsCurve(m) THEN CurveSet(m) ELSE w.backup
            /\ SetsCurve(m) => after.curve_resource = CurveResource(after.backup)
    ]_vars

\* A loaded curve was edited and saved, and the edit then discarded: the
\* resource holds the curve loaded, the file the curve edited.
C33_Witness ==
    /\ ui_message.returned = "None"
    /\ ConfirmsDiscard(ui_message.message)
    /\ Window.modified
    /\ Window.backup # DefaultCurve
    /\ Window.curve_resource = CurveResource(Window.backup)
    /\ Window.path # DefaultPath
    /\ files[Window.path].some
    /\ files[Window.path].curve # Window.backup
    /\ Window.command_stack.top < Len(Window.command_stack.commands)

\* C34: handling an accepted edit (a Sync of the curve editor widget, from
\* the widget, without the sync flag, while a curve resource is set) puts
\* exactly one ModifyCurveCommand on the command stack, above the commands
\* that are done: it holds the curve the resource had, and the resource gets
\* the curve of the message; no other message adds a command: a Sync with
\* the sync flag, with direction ToWidget, to another widget or without a
\* resource leaves the stack and the curve as they are, undo and redo only
\* move the top, and set_curve (File/New, a successful Load) empties the
\* stack, after which an undo leaves the curve of the resource alone.
C34_OneCommandPerAcceptedEdit ==
    [][HandlesMessage =>
         LET w == curve_editor_window.window
             after == curve_editor_window'.window
             m == ui_message'.message
             stack == w.command_stack
             pushed == after.command_stack
         IN /\ AcceptedEdit(w, m) =>
                   /\ pushed.top = stack.top + 1
                   /\ Len(pushed.commands) = pushed.top
                   /\ SubSeq(pushed.commands, 1, stack.top)
                          = SubSeq(stack.commands, 1, stack.top)
                   /\ pushed.commands[pushed.top] = w.curve_resource.curve
                   /\ after.curve_resource = CurveResource(m.curve)
            /\ (m.data = "CurveEditorMessage::Sync" /\ ~AcceptedEdit(w, m)) =>
                   after = w
            /\ SetsCurve(m) => pushed = CommandStackNew
            /\ (~AcceptedEdit(w, m) /\ ~SetsCurve(m)) =>
                   Len(pushed.commands) = Len(stack.commands)
            /\ (IsMessage(m, "MenuItemMessage::Click", "undo") /\ stack.top = 0) =>
                   after = w
    ]_vars

\* A second edit was accepted: two commands are on the stack, both done.
C34_Witness ==
    /\ curve_editor_window.some
    /\ ui_message.message.data = "CurveEditorMessage::Sync"
    /\ FromCurveEditor(ui_message.message)
    /\ Window.curve_resource = CurveResource(ui_message.message.curve)
    /\ Window.command_stack.top = 2
    /\ Len(Window.command_stack.commands) = 2
    /\ Window.command_stack.commands[2] # Window.curve_resource.curve
    /\ Window.modified
====
